---------------------------- MODULE Spec2Model ----------------------------
(***************************************************************************)
(* Model of the PDF table extractor: value normaliser, page classifier,    *)
(* the grid / gap / header / index engines, the per-page arbitration and   *)
(* the document loop of extract_document.                                  *)
(*                                                                         *)
(* Conventions.                                                            *)
(*  - A text is a sequence of one-character strings, so that the regular   *)
(*    expressions of the source are computed character by character.       *)
(*  - Python's None and the empty list / empty string are both written     *)
(*    <<>>: every place of the source that reads such a value tests only   *)
(*    its truthiness, and the engines return "result or None".             *)
(*  - Coordinates are integers (layout units); comparisons against a       *)
(*    midpoint (a + b) / 2 are made on doubled values.                     *)
(***************************************************************************)
EXTENDS Integers, Sequences, FiniteSets, TLC

VARIABLES
    normRow,       \* SpecNorm: the row handed to _fix_number_splits
    normHist,      \* SpecNorm: the row after 0, 1, 2 applications
    normEngine,    \* SpecNorm: which normaliser is applied ("grid" | "gap")
    cpage,         \* SpecClassify: the page whose primitives are inspected
    ctag,          \* SpecClassify: result of classify_page ("" before the call)
    epage,         \* SpecEngine, SpecPage: the page handed to the routines
    ecall,         \* SpecEngine, SpecPage: the routine that ran last ("" at first)
    eout,          \* SpecEngine, SpecPage: what that routine returned
    pdf,           \* SpecDoc: the pages of the opened document
    force_docling, \* SpecDoc: the force_docling argument
    pc,            \* SpecDoc: position in extract_document
    document,      \* SpecDoc: the list of page blocks built so far
    current_form,  \* SpecDoc: the running form identifier (<<>> for None)
    docling_pages, \* SpecDoc: page numbers queued for the docling pass
    docling_blocks,\* SpecDoc: what extract_with_docling returned (<<>> before)
    dl_total,      \* SpecDocling: the number of pages of the PDF
    dl_pages,      \* SpecDocling: the page_numbers argument, as a set ({} for None)
    dl_serial,     \* SpecDocling: one worker or a GPU: the chunks run in order
    dl_pc,         \* SpecDocling: position in extract_with_docling
    dl_files,      \* SpecDocling: the start pages of the chunk files on disk
    dl_chunks,     \* SpecDocling: the start pages in the list 'chunks'
    dl_pending,    \* SpecDocling: the chunks whose worker has not returned
    dl_blocks,     \* SpecDocling: the page numbers of all_blocks
    dl_failed,     \* SpecDocling: the chunks logged as "Docling chunk failed"
    dl_result      \* SpecDocling: the page numbers of the returned blocks

vars == <<normRow, normHist, normEngine, cpage, ctag, epage, ecall, eout,
          pdf, force_docling, pc, document, current_form, docling_pages,
          docling_blocks, dl_total, dl_pages, dl_serial, dl_pc, dl_files,
          dl_chunks, dl_pending, dl_blocks, dl_failed, dl_result>>

normVars == <<normRow, normHist, normEngine>>
classVars == <<cpage, ctag>>
engVars == <<epage, ecall, eout>>
docVars == <<pdf, force_docling, pc, document, current_form, docling_pages,
            docling_blocks>>
dlVars == <<dl_total, dl_pages, dl_serial, dl_pc, dl_files, dl_chunks,
           dl_pending, dl_blocks, dl_failed, dl_result>>

(***************************************************************************)
(* Characters and texts                                                    *)
(***************************************************************************)
Digits == {"0", "1", "2", "3", "4", "5", "6", "7", "8", "9"}

LowerChars == <<"a","b","c","d","e","f","g","h","i","j","k","l","m",
                "n","o","p","q","r","s","t","u","v","w","x","y","z">>

UpperChars == <<"A","B","C","D","E","F","G","H","I","J","K","L","M",
                "N","O","P","Q","R","S","T","U","V","W","X","Y","Z">>

IsDigit(c) == c \in Digits

IsSpace(c) == c \in {" ", "\t", "\n"}

IsUpper(c) == \E i \in 1..26 : UpperChars[i] = c

IsLower(c) == \E i \in 1..26 : LowerChars[i] = c

\* str.upper() on one character
UpperChar(c) ==
    IF IsLower(c) THEN UpperChars[CHOOSE i \in 1..26 : LowerChars[i] = c]
    ELSE c

\* str.upper()
Upper(s) == [i \in 1..Len(s) |-> UpperChar(s[i])]

\* first index >= i of s that holds no whitespace (Len(s) + 1 when none)
RECURSIVE SkipSpaces(_, _)
SkipSpaces(s, i) ==
    IF i <= Len(s) /\ IsSpace(s[i]) THEN SkipSpaces(s, i + 1) ELSE i

\* first index >= i of s that holds no lower-case letter
RECURSIVE SkipLower(_, _)
SkipLower(s, i) ==
    IF i <= Len(s) /\ IsLower(s[i]) THEN SkipLower(s, i + 1) ELSE i

\* first index >= i of s that holds no digit
RECURSIVE SkipDigits(_, _)
SkipDigits(s, i) ==
    IF i <= Len(s) /\ IsDigit(s[i]) THEN SkipDigits(s, i + 1) ELSE i

\* s[i .. i + Len(lit) - 1] = lit
LitAt(s, i, lit) ==
    /\ i >= 1
    /\ i + Len(lit) - 1 <= Len(s)
    /\ \A k \in 1..Len(lit) : s[i + k - 1] = lit[k]

\* the same, ignoring case (re.IGNORECASE on a literal)
LitAtI(s, i, lit) ==
    /\ i >= 1
    /\ i + Len(lit) - 1 <= Len(s)
    /\ \A k \in 1..Len(lit) : UpperChar(s[i + k - 1]) = UpperChar(lit[k])

\* str.strip()
RECURSIVE RStrip(_)
RStrip(s) ==
    IF s # <<>> /\ IsSpace(s[Len(s)]) THEN RStrip(SubSeq(s, 1, Len(s) - 1))
    ELSE s

Strip(s) ==
    LET r == RStrip(s)
        i == SkipSpaces(r, 1)
    IN  SubSeq(r, i, Len(r))

(***************************************************************************)
(* ValueNormalizer: _fix_number_splits of extractor.py (grid rebuild) and  *)
(* of extractor_gap.py (gap and header engines)                            *)
(***************************************************************************)
\* re.sub(r"(\d)\s+([,\d])", r"\1\2", v): matches are found left to right
\* and do not overlap; the digit that ends a match cannot start the next.
RECURSIVE SubDigitGapFrom(_, _)
SubDigitGapFrom(s, i) ==
    IF i > Len(s) THEN <<>>
    ELSE LET j == SkipSpaces(s, i + 1)
         IN  IF /\ IsDigit(s[i])
                /\ j > i + 1
                /\ j <= Len(s)
                /\ (s[j] = "," \/ IsDigit(s[j]))
             THEN <<s[i], s[j]>> \o SubDigitGapFrom(s, j + 1)
             ELSE <<s[i]>> \o SubDigitGapFrom(s, i + 1)

SubDigitGap(s) == SubDigitGapFrom(s, 1)

\* re.sub(r"\(\s+", "(", v)
RECURSIVE SubParenGapFrom(_, _)
SubParenGapFrom(s, i) ==
    IF i > Len(s) THEN <<>>
    ELSE LET j == SkipSpaces(s, i + 1)
         IN  IF s[i] = "(" /\ j > i + 1
             THEN <<"(">> \o SubParenGapFrom(s, j)
             ELSE <<s[i]>> \o SubParenGapFrom(s, i + 1)

SubParenGap(s) == SubParenGapFrom(s, 1)

\* end (exclusive) of a match of (30th|31st|[A-Z][a-z]+) at k, 0 when none
SmashTailEnd(s, k) ==
    IF LitAt(s, k, <<"3", "0", "t", "h">>) THEN k + 4
    ELSE IF LitAt(s, k, <<"3", "1", "s", "t">>) THEN k + 4
    ELSE IF k + 1 <= Len(s) /\ IsUpper(s[k]) /\ IsLower(s[k + 1])
         THEN SkipLower(s, k + 1)
    ELSE 0

\* _SMASH_RE.sub(r"\1", v), _SMASH_RE = (\d{4})\s*(30th|31st|[A-Z][a-z]+)
RECURSIVE SubSmashFrom(_, _)
SubSmashFrom(s, i) ==
    IF i > Len(s) THEN <<>>
    ELSE LET year == i + 3 <= Len(s) /\ \A k \in i..(i + 3) : IsDigit(s[k])
             e    == IF year THEN SmashTailEnd(s, SkipSpaces(s, i + 4)) ELSE 0
         IN  IF e > 0
             THEN SubSeq(s, i, i + 3) \o SubSmashFrom(s, e)
             ELSE <<s[i]>> \o SubSmashFrom(s, i + 1)

SubSmash(s) == SubSmashFrom(s, 1)

\* extractor.py: the body of the loop of _fix_number_splits for one cell
FixCellGrid(cell) ==
    IF cell = <<>> THEN cell
    ELSE SubParenGap(SubDigitGap(cell))

\* extractor_gap.py: the body of the loop of _fix_number_splits for one cell
FixCellGap(cell) ==
    IF cell = <<>> THEN cell
    ELSE Strip(SubSmash(SubParenGap(SubDigitGap(cell))))

\* extractor.py _fix_number_splits(row)
fix_number_splits_grid(row) == [i \in 1..Len(row) |-> FixCellGrid(row[i])]

\* extractor_gap.py _fix_number_splits(row)
fix_number_splits_gap(row) == [i \in 1..Len(row) |-> FixCellGap(row[i])]


(***************************************************************************)
(* SpecNorm: the normalisers applied to one row, and applied again to      *)
(* their own output                                                        *)
(***************************************************************************)
MaxCellLen == 5

MaxFixApplications == 2

NormAlphabet == {"1", " ", ",", "(", "A", "a"}

\* every text over NormAlphabet of at most MaxCellLen characters
ShortTexts == UNION {[1..n -> NormAlphabet] : n \in 0..MaxCellLen}

\* the cell texts quoted by the documentation of the two normalisers
QuotedTexts ==
    { <<"5", " ", ",", "3", "6", ",", "8", "9", "7">>,
      <<"(", " ", "1", "2", ",", "1", "9", "5", ")">>,
      <<"1", " ", "1", "3", ",", "3", "3", "0">>,
      <<"2", "0", "2", "5", "3", "0", "t", "h">>,
      <<"2", "0", "2", "5", " ", "3", "1", "s", "t">>,
      <<"2", "0", "2", "5", " ", "M", "a", "r", "c", "h">>,
      <<"2", "0", "2", "5", "M", "a", "r", "c", "h">>,
      <<"2", "0", "2", "4", " ", "J", "u", "n", "e", " ", "1", "2">> }

NormRows == {<<t>> : t \in ShortTexts \cup QuotedTexts}

NormIdle ==
    /\ normRow = <<>>
    /\ normHist = <<>>
    /\ normEngine = "none"

NormInit ==
    /\ normRow \in NormRows
    /\ normEngine \in {"grid", "gap"}
    /\ normHist = <<normRow>>

\* extractor.py: result.append(_fix_number_splits(row))
FixNumberSplitsGrid ==
    /\ normEngine = "grid"
    /\ Len(normHist) <= MaxFixApplications
    /\ normHist' = Append(normHist, fix_number_splits_grid(normHist[Len(normHist)]))
    /\ UNCHANGED <<normRow, normEngine>>

\* extractor_gap.py: result.append(_fix_number_splits(row))
FixNumberSplitsGap ==
    /\ normEngine = "gap"
    /\ Len(normHist) <= MaxFixApplications
    /\ normHist' = Append(normHist, fix_number_splits_gap(normHist[Len(normHist)]))
    /\ UNCHANGED <<normRow, normEngine>>

(***************************************************************************)
(* PageClassifier: classify_page of pdf_type_detector.py                   *)
(***************************************************************************)
SCANNED_MAX_CHARS == 20

MIN_RULE_LENGTH == 20

MIN_RULES == 3

Abs(n) == IF n < 0 THEN -n ELSE n

RECURSIVE SumSeq(_)
SumSeq(s) == IF s = <<>> THEN 0 ELSE s[1] + SumSeq(Tail(s))

\* sum((i.get("width", 0) or 0) * (i.get("height", 0) or 0) for i in images)
img_area(p) == SumSeq([i \in 1..Len(p.images) |-> p.images[i].width * p.images[i].height])

\* images and len(chars) < 20 and img_area > 0.5 * page_area
is_scanned(p) ==
    /\ p.images # <<>>
    /\ p.chars < SCANNED_MAX_CHARS
    /\ 2 * img_area(p) > p.width * p.height

v_lines(p) == SelectSeq(p.lines, LAMBDA l : Abs(l.x0 - l.x1) < 1 /\ (l.y1 - l.y0) > MIN_RULE_LENGTH)

h_lines(p) == SelectSeq(p.lines, LAMBDA l : Abs(l.y0 - l.y1) < 1 /\ (l.x1 - l.x0) > MIN_RULE_LENGTH)

v_rects(p) == SelectSeq(p.rects, LAMBDA r : r.width < 2 /\ r.height > MIN_RULE_LENGTH)

h_rects(p) == SelectSeq(p.rects, LAMBDA r : r.height < 2 /\ r.width > MIN_RULE_LENGTH)

\* mutant of total_v: thin tall rectangles are not counted as vertical rules
total_v_lines_only(p) == Len(v_lines(p))

total_v(p) == Len(v_lines(p)) + Len(v_rects(p))

total_h(p) == Len(h_lines(p)) + Len(h_rects(p))

\* mutant of classify_page: the rules are counted before the scanned test
classify_page_rules_first(p) ==
    IF total_v(p) >= MIN_RULES THEN "lines"
    ELSE IF is_scanned(p) THEN "scanned"
    ELSE IF total_h(p) >= MIN_RULES THEN "h_only"
    ELSE "no_lines"

classify_page(p) ==
    IF is_scanned(p) THEN "scanned"
    ELSE IF total_v(p) >= MIN_RULES THEN "lines"
    ELSE IF total_h(p) >= MIN_RULES THEN "h_only"
    ELSE "no_lines"

(***************************************************************************)
(* Word tokens and rows.  A word is [text, x0, x1, top]; page.words is     *)
(* what page.extract_words(...) returns, in the provider's order.          *)
(***************************************************************************)
\* sorted(..., key = top) is stable: a word goes after the words that do
\* not exceed its key
RECURSIVE InsertByTop(_, _)
InsertByTop(sorted, w) ==
    IF sorted = <<>> THEN <<w>>
    ELSE IF sorted[Len(sorted)].top <= w.top THEN Append(sorted, w)
    ELSE Append(InsertByTop(SubSeq(sorted, 1, Len(sorted) - 1), w), sorted[Len(sorted)])

RECURSIVE SortByTop(_)
SortByTop(ws) ==
    IF ws = <<>> THEN <<>>
    ELSE InsertByTop(SortByTop(SubSeq(ws, 1, Len(ws) - 1)), ws[Len(ws)])

RECURSIVE InsertByX0(_, _)
InsertByX0(sorted, w) ==
    IF sorted = <<>> THEN <<w>>
    ELSE IF sorted[Len(sorted)].x0 <= w.x0 THEN Append(sorted, w)
    ELSE Append(InsertByX0(SubSeq(sorted, 1, Len(sorted) - 1), w), sorted[Len(sorted)])

RECURSIVE SortByX0(_)
SortByX0(ws) ==
    IF ws = <<>> THEN <<>>
    ELSE InsertByX0(SortByX0(SubSeq(ws, 1, Len(ws) - 1)), ws[Len(ws)])

\* the loop of _group_rows / _group_into_rows over words sorted by top:
\* a word joins the current row when its top is within y_tol of the top of
\* the row's last word
RECURSIVE GroupRowsFrom(_, _, _, _, _)
GroupRowsFrom(ws, i, cur, rows, y_tol) ==
    IF i > Len(ws) THEN Append(rows, SortByX0(cur))
    ELSE IF Abs(ws[i].top - cur[Len(cur)].top) <= y_tol
         THEN GroupRowsFrom(ws, i + 1, Append(cur, ws[i]), rows, y_tol)
         ELSE GroupRowsFrom(ws, i + 1, <<ws[i]>>, Append(rows, SortByX0(cur)), y_tol)

GroupRows(words, y_tol) ==
    IF words = <<>> THEN <<>>
    ELSE LET ws == SortByTop(words)
         IN  GroupRowsFrom(ws, 2, <<ws[1]>>, <<>>, y_tol)

GAP_Y_TOL == 4

GRID_Y_TOL == 3

\* extractor_gap.py _group_rows(words, y_tol=4)
_group_rows(words) == GroupRows(words, GAP_Y_TOL)

\* extractor.py _group_into_rows(words, y_tol=3)
_group_into_rows(words) == GroupRows(words, GRID_Y_TOL)

\* " ".join(texts)
RECURSIVE JoinSp(_)
JoinSp(texts) ==
    IF texts = <<>> THEN <<>>
    ELSE IF Len(texts) = 1 THEN texts[1]
    ELSE texts[1] \o <<" ">> \o JoinSp(Tail(texts))

\* the texts of the words of a row
Texts(rw) == [i \in 1..Len(rw) |-> rw[i].text]

\* [x] * n, built as a list is: element after element
RECURSIVE Repeat(_, _)
Repeat(x, n) == IF n <= 0 THEN <<>> ELSE Append(Repeat(x, n - 1), x)

\* [""] * n
Blank(n) == Repeat(<<>>, n)

\* any(c.strip() for c in row)
AnyText(row) == \E i \in 1..Len(row) : Strip(row[i]) # <<>>

\* re.search: the pattern matches at some position of s
SearchAt(s, At(_, _)) == \E i \in 1..Len(s) : At(s, i)

(***************************************************************************)
(* Engine A: extract_gap_based of extractor_gap.py                         *)
(***************************************************************************)
_MIN_COL_GAP == 20

_MIN_CLUSTER_TOKENS == 3

PARTICULARS_MARGIN == 15

NumChars == Digits \cup {",", "(", ")", "-", "."}

\* _NUM_RE.match(text), _NUM_RE = ^[\d,\(\)\-\.]+$
_NUM_RE(text) == text # <<>> /\ \A i \in 1..Len(text) : text[i] \in NumChars

\* _DATE_RE.match(text),
\* _DATE_RE = ^\d{4}$|^30th$|^31st$|^September|^March|^December|^June
_DATE_RE(text) ==
    \/ Len(text) = 4 /\ \A i \in 1..4 : IsDigit(text[i])
    \/ text = <<"3", "0", "t", "h">>
    \/ text = <<"3", "1", "s", "t">>
    \/ LitAt(text, 1, <<"S", "e", "p", "t", "e", "m", "b", "e", "r">>)
    \/ LitAt(text, 1, <<"M", "a", "r", "c", "h">>)
    \/ LitAt(text, 1, <<"D", "e", "c", "e", "m", "b", "e", "r">>)
    \/ LitAt(text, 1, <<"J", "u", "n", "e">>)

\* a match of Version\s*:\s*\d or of "Date of upload" at i, ignoring case
FooterAt(s, i) ==
    \/ /\ LitAtI(s, i, <<"V", "e", "r", "s", "i", "o", "n">>)
       /\ LET j == SkipSpaces(s, i + 7)
              k == SkipSpaces(s, j + 1)
          IN  /\ j <= Len(s) /\ s[j] = ":"
              /\ k <= Len(s) /\ IsDigit(s[k])
    \/ LitAtI(s, i, <<"D", "a", "t", "e", " ", "o", "f", " ", "u", "p", "l", "o", "a", "d">>)

\* _FOOTER_RE.search(s)
_FOOTER_RE(s) == SearchAt(s, FooterAt)

\* the cells of a row that are not empty
NonEmpty(row) == SelectSeq(row, LAMBDA c : c # <<>>)

_is_footer_row(row) == _FOOTER_RE(JoinSp(NonEmpty(row)))

_row_is_text_only(rw, left_cutoff) == \A i \in 1..Len(rw) : rw[i].x0 < left_cutoff

_has_date_tokens(rw) == \E i \in 1..Len(rw) : _DATE_RE(rw[i].text)

_has_data_numbers(rw, boundary) ==
    \E i \in 1..Len(rw) : _NUM_RE(rw[i].text) /\ rw[i].x0 > boundary

\* the x0 of the numeric tokens right of the cutoff, in page order
NumXs_unsorted(words, page_width) ==
    LET nums == SelectSeq(words, LAMBDA w :
                    /\ _NUM_RE(w.text)
                    /\ IF page_width # 0 THEN 5 * w.x0 > 2 * page_width
                       ELSE w.x0 > 200)
    IN  [i \in 1..Len(nums) |-> nums[i].x0]

\* the sorted x0 of the numeric tokens right of 40% of the page width
\* (page_width * 0.40, or 200 when the width is not given)
NumXs(words, page_width) ==
    LET nums == SelectSeq(words, LAMBDA w :
                    /\ _NUM_RE(w.text)
                    /\ IF page_width # 0 THEN 5 * w.x0 > 2 * page_width
                       ELSE w.x0 > 200)
        srt  == SortByX0(nums)
    IN  [i \in 1..Len(srt) |-> srt[i].x0]

\* the clustering loop of _detect_data_columns
RECURSIVE ClusterFrom(_, _, _)
ClusterFrom(xs, i, clusters) ==
    IF i > Len(xs) THEN clusters
    ELSE LET n    == Len(clusters)
             last == clusters[n]
         IN  IF xs[i] - last[Len(last)] > _MIN_COL_GAP
             THEN ClusterFrom(xs, i + 1, Append(clusters, <<xs[i]>>))
             ELSE ClusterFrom(xs, i + 1, [clusters EXCEPT ![n] = Append(last, xs[i])])

\* mutant of _detect_data_columns: the clusters are built from any number
\* of numeric tokens
_detect_data_columns_any_count(words, page_width) ==
    LET num_xs == NumXs(words, page_width)
    IN  IF num_xs = <<>> THEN <<>>
        ELSE LET clusters == ClusterFrom(num_xs, 2, << <<num_xs[1]>> >>)
                 kept     == SelectSeq(clusters, LAMBDA c : Len(c) >= _MIN_CLUSTER_TOKENS)
             IN  [i \in 1..Len(kept) |-> <<kept[i][1], kept[i][Len(kept[i])]>>]

\* a column band is <<x_min, x_max>>; None is <<>>
_detect_data_columns(words, page_width) ==
    LET num_xs == NumXs(words, page_width)
    IN  IF Len(num_xs) < _MIN_CLUSTER_TOKENS * 2 THEN <<>>
        ELSE LET clusters == ClusterFrom(num_xs, 2, << <<num_xs[1]>> >>)
                 kept     == SelectSeq(clusters, LAMBDA c : Len(c) >= _MIN_CLUSTER_TOKENS)
             IN  [i \in 1..Len(kept) |-> <<kept[i][1], kept[i][Len(kept[i])]>>]

\* doubled boundaries: 2 * (col_ranges[i][1] + col_ranges[i + 1][0]) / 2
_build_boundaries(col_ranges) ==
    [i \in 1..(Len(col_ranges) - 1) |-> col_ranges[i][2] + col_ranges[i + 1][1]]

Min(a, b) == IF a < b THEN a ELSE b

Max(a, b) == IF a > b THEN a ELSE b

\* the loop of _assign_by_boundary: ci after boundaries i.., 0-based columns
RECURSIVE AssignLoop(_, _, _, _)
AssignLoop(xc2, boundaries2, i, ci) ==
    IF i > Len(boundaries2) THEN ci
    ELSE IF xc2 > boundaries2[i] THEN AssignLoop(xc2, boundaries2, i + 1, i + 1)
    ELSE ci

\* xc2 is the doubled centre x0 + x1; the result is the 0-based column
_assign_by_boundary(xc2, boundaries2, num_cols) ==
    Min(AssignLoop(xc2, boundaries2, 1, 1), num_cols - 1)

W_Particulars == <<"P", "a", "r", "t", "i", "c", "u", "l", "a", "r", "s">>

\* mutant of PutCell: the word replaces what the cell holds
PutCell_overwrite(row, ci, text) == [row EXCEPT ![ci + 1] = Strip(text)]

\* row[ci] = (row[ci] + " " + w["text"]).strip(), ci 0-based
PutCell(row, ci, text) ==
    [row EXCEPT ![ci + 1] = Strip(row[ci + 1] \o <<" ">> \o text)]

\* the column of a word when a header row has no marker of its own
GapColumn_no_marker(w, is_header, particulars_boundary, boundaries2, num_cols) ==
    IF is_header
    THEN _assign_by_boundary(w.x0 + w.x1, boundaries2, num_cols)
    ELSE IF w.x0 < particulars_boundary THEN 0
         ELSE _assign_by_boundary(w.x0 + w.x1, boundaries2, num_cols)

\* the column (0-based) extract_gap_based gives a word of a row
GapColumn(w, is_header, particulars_boundary, boundaries2, num_cols) ==
    IF is_header
    THEN IF w.text = W_Particulars THEN 0
         ELSE _assign_by_boundary(w.x0 + w.x1, boundaries2, num_cols)
    ELSE IF w.x0 < particulars_boundary THEN 0
         ELSE _assign_by_boundary(w.x0 + w.x1, boundaries2, num_cols)

\* the inner loop "for w in rw" of extract_gap_based
RECURSIVE GapFillRow(_, _, _, _, _, _, _)
GapFillRow(rw, i, row, is_header, pb, boundaries2, num_cols) ==
    IF i > Len(rw) THEN row
    ELSE GapFillRow(rw, i + 1,
                    PutCell(row, GapColumn(rw[i], is_header, pb, boundaries2, num_cols),
                            rw[i].text),
                    is_header, pb, boundaries2, num_cols)

\* mutant of GapRawRow: a text-only row is appended without its padding
GapRawRow_unpadded(rw, col_ranges) ==
    LET pb        == col_ranges[1][1] - PARTICULARS_MARGIN
        num_cols  == 1 + Len(col_ranges)
        is_header == _has_date_tokens(rw) /\ ~_has_data_numbers(rw, pb)
    IN  IF _row_is_text_only(rw, pb)
        THEN <<Strip(JoinSp(Texts(rw)))>>
        ELSE GapFillRow(rw, 1, Blank(num_cols), is_header, pb,
                        _build_boundaries(col_ranges), num_cols)

\* the row built for rw before the footer test and the normaliser
GapRawRow(rw, col_ranges) ==
    LET pb        == col_ranges[1][1] - PARTICULARS_MARGIN
        num_cols  == 1 + Len(col_ranges)
        is_header == _has_date_tokens(rw) /\ ~_has_data_numbers(rw, pb)
    IN  IF _row_is_text_only(rw, pb)
        THEN <<Strip(JoinSp(Texts(rw)))>> \o Blank(num_cols - 1)
        ELSE GapFillRow(rw, 1, Blank(num_cols), is_header, pb,
                        _build_boundaries(col_ranges), num_cols)

\* the cell (0-based) each word of rw ends in: the first cell for a
\* text-only row, else the column of the loop "for w in rw"
GapColumnsOfRow(rw, col_ranges) ==
    LET pb        == col_ranges[1][1] - PARTICULARS_MARGIN
        num_cols  == 1 + Len(col_ranges)
        is_header == _has_date_tokens(rw) /\ ~_has_data_numbers(rw, pb)
    IN  IF _row_is_text_only(rw, pb) THEN [i \in 1..Len(rw) |-> 0]
        ELSE [i \in 1..Len(rw) |->
                 GapColumn(rw[i], is_header, pb, _build_boundaries(col_ranges), num_cols)]

\* whether the row built for rw is appended to the result
GapKeepsRow(rw, col_ranges) ==
    LET pb  == col_ranges[1][1] - PARTICULARS_MARGIN
        row == GapRawRow(rw, col_ranges)
    IN  IF _row_is_text_only(rw, pb)
        THEN row[1] # <<>> /\ ~_FOOTER_RE(row[1])
        ELSE AnyText(row) /\ ~_is_footer_row(row)

\* the row appended for rw: text-only rows are appended as they are
GapOutRow(rw, col_ranges) ==
    LET pb == col_ranges[1][1] - PARTICULARS_MARGIN
    IN  IF _row_is_text_only(rw, pb) THEN GapRawRow(rw, col_ranges)
        ELSE fix_number_splits_gap(GapRawRow(rw, col_ranges))

\* the rows appended to the result, in order
GapOutRows(kept, col_ranges) == [i \in 1..Len(kept) |-> GapOutRow(kept[i], col_ranges)]

\* the loop "for rw in rows_raw" of extract_gap_based
GapRows(rows_raw, col_ranges) ==
    GapOutRows(SelectSeq(rows_raw, LAMBDA rw : GapKeepsRow(rw, col_ranges)), col_ranges)

\* extract_gap_based after the column bands are detected
GapFromBands(page, col_ranges) ==
    IF col_ranges = <<>> THEN <<>>
    ELSE GapRows(_group_rows(page.words), col_ranges)

\* extract_gap_based(page): list of rows, or None (<<>>)
extract_gap_based(page) ==
    IF page.words = <<>> THEN <<>>
    ELSE GapFromBands(page, _detect_data_columns(page.words, page.width))

(***************************************************************************)
(* Engine B: detect_col_centers and extract_header_cols of                 *)
(* extractor_gap.py.  Column centres are kept doubled (x0 + x1).           *)
(***************************************************************************)
_MIN_HDR_SCORE == 4

_MIN_HDR_COLS == 6

HDR_ADJACENT_GAP == 5

HDR_SEEN_GAP == 10

SCHED_MIN_TOP == 60

SCHED_ZONE == 20

W_TOTAL == <<"T", "O", "T", "A", "L">>

_HDR_COL_WORDS ==
    { <<"L", "I", "F", "E">>,
      <<"P", "E", "N", "S", "I", "O", "N">>,
      <<"H", "E", "A", "L", "T", "H">>,
      <<"H", "E", "A", "L", "T", "H", "#">>,
      <<"A", "N", "N", "U", "I", "T", "Y">>,
      W_TOTAL,
      <<"V", "A", "R", ".", "I", "N", "S">>,
      <<"V", "A", "R", ".">>,
      <<"I", "N", "S">>,
      <<"I", "N", "S", ".">>,
      <<"V", "A", "R", "I", "A", "B", "L", "E">> }

\* str.rstrip('#')
RECURSIVE RStripHash(_)
RStripHash(s) ==
    IF s # <<>> /\ s[Len(s)] = "#" THEN RStripHash(SubSeq(s, 1, Len(s) - 1))
    ELSE s

\* w['text'].upper().rstrip('#')
HdrNorm(text) == RStripHash(Upper(text))

IsHdrWord(w) == HdrNorm(w.text) \in _HDR_COL_WORDS

\* sum(1 for w in row if w['text'].upper().rstrip('#') in _HDR_COL_WORDS)
HdrScore(row) == Cardinality({i \in 1..Len(row) : IsHdrWord(row[i])})

\* the first row of the highest score (0 and score 0 when no row scores)
RECURSIVE BestHdrRow(_, _, _, _)
BestHdrRow(rows, ri, best_idx, best_score) ==
    IF ri > Len(rows) THEN <<best_idx, best_score>>
    ELSE IF HdrScore(rows[ri]) > best_score
         THEN BestHdrRow(rows, ri + 1, ri, HdrScore(rows[ri]))
         ELSE BestHdrRow(rows, ri + 1, best_idx, best_score)

\* round(c2 / 2, 0): Python rounds a half to the even neighbour
RoundHalf(c2) ==
    IF c2 % 2 = 0 THEN c2 \div 2
    ELSE IF (c2 \div 2) % 2 = 0 THEN c2 \div 2 ELSE (c2 \div 2) + 1

\* acc is [centers |-> doubled centres, seen |-> rounded centres]
AddCenter(acc, c2) ==
    IF \E s \in acc.seen : Abs(RoundHalf(c2) - s) < HDR_SEEN_GAP THEN acc
    ELSE [centers |-> Append(acc.centers, c2), seen |-> acc.seen \cup {RoundHalf(c2)}]

\* the span extension loop: <<x1_span, indices consumed>>
RECURSIVE ExtendSpan(_, _, _, _)
ExtendSpan(hdr_row, wj, x1_span, used) ==
    IF wj > Len(hdr_row) THEN <<x1_span, used>>
    ELSE IF hdr_row[wj].x0 - x1_span < HDR_ADJACENT_GAP
         THEN ExtendSpan(hdr_row, wj + 1, hdr_row[wj].x1, used \cup {wj})
         ELSE <<x1_span, used>>

\* the loop over the words of the best header row
RECURSIVE HdrRowCenters(_, _, _, _)
HdrRowCenters(hdr_row, wi, used, acc) ==
    IF wi > Len(hdr_row) THEN acc
    ELSE IF wi \in used \/ ~IsHdrWord(hdr_row[wi])
         THEN HdrRowCenters(hdr_row, wi + 1, used, acc)
         ELSE LET ext == ExtendSpan(hdr_row, wi + 1, hdr_row[wi].x1, used)
              IN  HdrRowCenters(hdr_row, wi + 1, ext[2],
                                AddCenter(acc, hdr_row[wi].x0 + ext[1]))

\* the words of a row that are 'TOTAL', added in order
RECURSIVE TotalsOfRow(_, _, _)
TotalsOfRow(row, i, acc) ==
    IF i > Len(row) THEN acc
    ELSE IF HdrNorm(row[i].text) = W_TOTAL
         THEN TotalsOfRow(row, i + 1, AddCenter(acc, row[i].x0 + row[i].x1))
         ELSE TotalsOfRow(row, i + 1, acc)

\* rows ri .. hi except the best one (rows are 1-based here)
RECURSIVE TotalsAround(_, _, _, _, _)
TotalsAround(rows, ri, hi, best, acc) ==
    IF ri > hi THEN acc
    ELSE IF ri = best THEN TotalsAround(rows, ri + 1, hi, best, acc)
    ELSE TotalsAround(rows, ri + 1, hi, best, TotalsOfRow(rows[ri], 1, acc))

\* "GRAND" followed, 5 units or more to its right, by "TOTAL"
RECURSIVE GrandOfRow(_, _, _)
GrandOfRow(row, i, acc) ==
    IF i > Len(row) THEN acc
    ELSE LET w   == row[i]
             nxt == SelectSeq(row, LAMBDA ww : ww.x0 >= w.x0 + 5)
         IN  IF /\ w.text \in {<<"G", "R", "A", "N", "D">>, <<"G", "r", "a", "n", "d">>}
                /\ nxt # <<>>
                /\ nxt[1].text \in {W_TOTAL, <<"T", "o", "t", "a", "l">>}
             THEN GrandOfRow(row, i + 1, AddCenter(acc, nxt[1].x0 + nxt[1].x1))
             ELSE GrandOfRow(row, i + 1, acc)

RECURSIVE GrandTotals(_, _, _)
GrandTotals(rows, ri, acc) ==
    IF ri > Len(rows) THEN acc
    ELSE GrandTotals(rows, ri + 1, GrandOfRow(rows[ri], 1, acc))

RECURSIVE InsertInt(_, _)
InsertInt(sorted, n) ==
    IF sorted = <<>> THEN <<n>>
    ELSE IF sorted[Len(sorted)] <= n THEN Append(sorted, n)
    ELSE Append(InsertInt(SubSeq(sorted, 1, Len(sorted) - 1), n), sorted[Len(sorted)])

RECURSIVE SortInts(_)
SortInts(xs) ==
    IF xs = <<>> THEN <<>>
    ELSE InsertInt(SortInts(SubSeq(xs, 1, Len(xs) - 1)), xs[Len(xs)])

\* _SCHED_COL_RE.match(text), _SCHED_COL_RE = ^L-\d+$
_SCHED_COL_RE(text) ==
    /\ Len(text) >= 3
    /\ text[1] = "L" /\ text[2] = "-"
    /\ \A i \in 3..Len(text) : IsDigit(text[i])

NoCenters == [col_centers |-> <<>>, sched_x |-> <<>>, part_bnd |-> 0]

\* the centres of the best header row, of the TOTAL words of the rows
\* within 2 of it, and of the GRAND TOTAL pairs of the page
AllCenters(rows, best_idx) ==
    GrandTotals(rows, 1,
        TotalsAround(rows, Max(1, best_idx - 2), Min(Len(rows), best_idx + 2), best_idx,
            HdrRowCenters(rows[best_idx], 1, {}, [centers |-> <<>>, seen |-> {}])))

\* x0 of the words of sx
X0s(sx) == [i \in 1..Len(sx) |-> sx[i].x0]

\* the sorted x0 of the schedule reference tokens below the title zone
SchedXs(words) ==
    SortInts(X0s(SelectSeq(words, LAMBDA w : _SCHED_COL_RE(w.text) /\ w.top > SCHED_MIN_TOP)))

\* mutant of CentersResult: any number of centres makes a result
CentersResult_any_count(cc, sxs) ==
    IF cc = <<>> THEN NoCenters
    ELSE [col_centers |-> cc,
          sched_x |-> IF sxs = <<>> THEN <<>> ELSE <<sxs[1]>>,
          part_bnd |-> IF Len(cc) > 1 THEN 3 * cc[1] - cc[2]
                       ELSE 2 * cc[1] - 80]

\* the result for sorted centres cc and sorted schedule positions sxs
CentersResult(cc, sxs) ==
    IF Len(cc) < _MIN_HDR_COLS THEN NoCenters
    ELSE [col_centers |-> cc,
          sched_x |-> IF sxs = <<>> THEN <<>> ELSE <<sxs[1]>>,
          part_bnd |-> IF Len(cc) > 1 THEN 3 * cc[1] - cc[2]
                       ELSE 2 * cc[1] - 80]

\* best is <<index of the best header row, its score>>
CentersFromBest(words, rows, best) ==
    IF best[2] < _MIN_HDR_SCORE THEN NoCenters
    ELSE CentersResult(SortInts(AllCenters(rows, best[1]).centers), SchedXs(words))

CentersFromRows(words, rows) == CentersFromBest(words, rows, BestHdrRow(rows, 1, 0, 0))

\* detect_col_centers(words, page_width).  col_centers holds the doubled
\* centres; sched_x is <<>> (None) or <<x>>; part_bnd is the boundary times
\* 4: 4 * (c[0] - (c[1] - c[0]) / 2) = 3 * (2 c[0]) - 2 c[1].
detect_col_centers(words, page_width) == CentersFromRows(words, _group_rows(words))

\* a match of Version\s*[:\.]?\s*\d or of Date\s+of\s+upload at i
FooterHdrAt(s, i) ==
    \/ /\ LitAtI(s, i, <<"V", "e", "r", "s", "i", "o", "n">>)
       /\ LET j == SkipSpaces(s, i + 7)
              k == SkipSpaces(s, j + 1)
          IN  \/ j <= Len(s) /\ IsDigit(s[j])
              \/ /\ j <= Len(s) /\ s[j] \in {":", "."}
                 /\ k <= Len(s) /\ IsDigit(s[k])
    \/ /\ LitAtI(s, i, <<"D", "a", "t", "e">>)
       /\ LET j == SkipSpaces(s, i + 4)
              k == SkipSpaces(s, j + 2)
          IN  /\ j > i + 4
              /\ LitAtI(s, j, <<"o", "f">>)
              /\ k > j + 2
              /\ LitAtI(s, k, <<"u", "p", "l", "o", "a", "d">>)

\* ^\s*\d+\s*$ : only digits between optional whitespace; $ also matches
\* before one final line break
DigitsOnly(s) ==
    LET i == SkipSpaces(s, 1)
        j == SkipDigits(s, i)
    IN  /\ j > i
        /\ \A k \in j..Len(s) : IsSpace(s[k])

\* _FOOTER_HDR_RE.search(s)
_FOOTER_HDR_RE(s) == SearchAt(s, FooterHdrAt) \/ DigitsOnly(s)

\* the loop of _assign over _boundaries: the 0-based data zone
RECURSIVE ZoneLoop(_, _, _, _)
ZoneLoop(xc2, cc, bi, ci) ==
    IF bi > Len(cc) - 1 THEN ci
    ELSE IF 2 * xc2 > cc[bi] + cc[bi + 1] THEN ZoneLoop(xc2, cc, bi + 1, bi)
    ELSE ci

\* _assign(w) with the test of the label threshold before the schedule test
HdrAssign_label_first(w, cen) ==
    LET xc2       == w.x0 + w.x1
        has_sched == cen.sched_x # <<>>
    IN  IF 2 * xc2 < cen.part_bnd THEN 0
        ELSE IF has_sched /\ Abs(xc2 - 2 * cen.sched_x[1]) < 2 * SCHED_ZONE THEN 1
        ELSE ZoneLoop(xc2, cen.col_centers, 1, 0) + (IF has_sched THEN 2 ELSE 1)

\* _assign(w) of extract_header_cols, 0-based column
HdrAssign(w, cen) ==
    LET xc2       == w.x0 + w.x1
        has_sched == cen.sched_x # <<>>
    IN  IF has_sched /\ Abs(xc2 - 2 * cen.sched_x[1]) < 2 * SCHED_ZONE THEN 1
        ELSE IF 2 * xc2 < cen.part_bnd THEN 0
        ELSE ZoneLoop(xc2, cen.col_centers, 1, 0) + (IF has_sched THEN 2 ELSE 1)

\* the ci = _assign(w) of the words of a row
HdrColumnsOfRow(word_row, cen) == [i \in 1..Len(word_row) |-> HdrAssign(word_row[i], cen)]

HdrTotalCols(cen) == Len(cen.col_centers) + (IF cen.sched_x # <<>> THEN 2 ELSE 1)

\* row[ci] += sep + w['text'], guarded by 0 <= ci < total_cols
HdrPutCell(row, ci, text) ==
    IF 0 <= ci /\ ci < Len(row)
    THEN [row EXCEPT ![ci + 1] = IF row[ci + 1] # <<>> THEN row[ci + 1] \o <<" ">> \o text
                                 ELSE text]
    ELSE row

RECURSIVE HdrFillRow(_, _, _, _)
HdrFillRow(word_row, i, row, cen) ==
    IF i > Len(word_row) THEN row
    ELSE HdrFillRow(word_row, i + 1,
                    HdrPutCell(row, HdrAssign(word_row[i], cen), word_row[i].text), cen)

\* the row built for word_row before the footer test and the normaliser
HdrRawRow(word_row, cen) == HdrFillRow(word_row, 1, Blank(HdrTotalCols(cen)), cen)

\* flat = ' '.join(row).strip(); not flat or _FOOTER_HDR_RE.search(flat)
HdrKeepsRow(word_row, cen) ==
    LET flat == Strip(JoinSp(HdrRawRow(word_row, cen)))
    IN  flat # <<>> /\ ~_FOOTER_HDR_RE(flat)

\* the rows appended to the result, in order
HdrOutRows(kept, cen) ==
    [i \in 1..Len(kept) |-> fix_number_splits_gap(HdrRawRow(kept[i], cen))]

\* the loop "for word_row in rows_raw" of extract_header_cols
HdrRows(rows_raw, cen) ==
    HdrOutRows(SelectSeq(rows_raw, LAMBDA rw : HdrKeepsRow(rw, cen)), cen)

\* extract_header_cols after the column centres are detected
HdrFromCenters(page, cen) ==
    IF cen.col_centers = <<>> THEN <<>>
    ELSE HdrRows(_group_rows(page.words), cen)

\* extract_header_cols(page): list of rows, or None (<<>>)
extract_header_cols(page) ==
    IF page.words = <<>> THEN <<>>
    ELSE HdrFromCenters(page, detect_col_centers(page.words, page.width))

(***************************************************************************)
(* Index pages: detect_index_page and extract_index_page of                *)
(* extractor_gap.py                                                        *)
(***************************************************************************)
INDEX_HEADER_ROWS == 15

INDEX_SR_X_MAX == 135

W_Description == <<"D", "e", "s", "c", "r", "i", "p", "t", "i", "o", "n">>

W_Pages == <<"P", "a", "g", "e", "s">>

W_Sr == <<"S", "r", ".">>

W_Form == <<"F", "o", "r", "m">>

\* {w['text'] for w in row}
TextSet(row) == {row[i].text : i \in 1..Len(row)}

IsFormatAHeader(row) == W_Description \in TextSet(row) /\ W_Pages \in TextSet(row)

detect_index_page(words) ==
    LET rows == _group_rows(words)
    IN  \E ri \in 1..Min(Len(rows), INDEX_HEADER_ROWS) :
            \/ IsFormatAHeader(rows[ri])
            \/ {W_Sr, W_Form} \subseteq TextSet(rows[ri])

\* the format detection loop: <<header row (1-based, 0 for None), is_format_b>>
RECURSIVE IndexHeader(_, _)
IndexHeader(rows, ri) ==
    IF ri > Min(Len(rows), INDEX_HEADER_ROWS) THEN <<0, FALSE>>
    ELSE IF IsFormatAHeader(rows[ri]) THEN <<ri, FALSE>>
    ELSE IF {W_Sr, W_Form} \subseteq TextSet(rows[ri]) /\ W_Description \notin TextSet(rows[ri])
         THEN <<ri, TRUE>>
    ELSE IndexHeader(rows, ri + 1)

IsAlnum(c) == IsDigit(c) \/ IsUpper(c) \/ IsLower(c)

RECURSIVE SkipAlnum(_, _)
SkipAlnum(s, i) ==
    IF i <= Len(s) /\ IsAlnum(s[i]) THEN SkipAlnum(s, i + 1) ELSE i

\* first index >= i of s that holds ")" (Len(s) + 1 when none)
RECURSIVE FindClose(_, _)
FindClose(s, i) ==
    IF i <= Len(s) /\ s[i] # ")" THEN FindClose(s, i + 1) ELSE i

CharAt(s, i, c) == i >= 1 /\ i <= Len(s) /\ s[i] = c

\* end (exclusive) of (?:\s*&\s*L[\dA-Za-z]+)? tried at a
FormOpt1End(s, a) ==
    LET q == SkipSpaces(s, a)
        r == SkipSpaces(s, q + 1)
        t == SkipAlnum(s, r + 1)
    IN  IF CharAt(s, q, "&") /\ CharAt(s, r, "L") /\ t > r + 1 THEN t ELSE a

\* end (exclusive) of (?:\s*\([^)]+\)\s*&\s*\([^)]+\))? tried at a
FormOpt2End(s, a) ==
    LET q  == SkipSpaces(s, a)
        c1 == FindClose(s, q + 1)
        m  == SkipSpaces(s, c1 + 1)
        o2 == SkipSpaces(s, m + 1)
        c2 == FindClose(s, o2 + 1)
    IN  IF /\ CharAt(s, q, "(") /\ c1 > q + 1 /\ CharAt(s, c1, ")")
           /\ CharAt(s, m, "&")
           /\ CharAt(s, o2, "(") /\ c2 > o2 + 1 /\ CharAt(s, c2, ")")
        THEN c2 + 1 ELSE a

\* _FORM_SPLIT_RE.match(s) for a stripped one-line s: <<group 1, group 2>>,
\* or <<>> when there is no match
_FORM_SPLIT_RE(s) ==
    LET a  == SkipAlnum(s, 3)
        e1 == FormOpt1End(s, a)
        e2 == FormOpt2End(s, e1)
        d  == SkipSpaces(s, e2)
        g  == SkipSpaces(s, d + 1)
    IN  IF /\ LitAt(s, 1, <<"L", "-">>) /\ a > 3
           /\ CharAt(s, d, "-")
           /\ g <= Len(s)
        THEN <<SubSeq(s, 1, e2 - 1), SubSeq(s, g, Len(s))>>
        ELSE <<>>

\* str.isdigit()
IsDigitText(s) == s # <<>> /\ \A i \in 1..Len(s) : IsDigit(s[i])

\* the joined texts of the words of a (sorted) row left of / from x = 135
SrText(row) == JoinSp(Texts(SelectSeq(row, LAMBDA w : w.x0 < INDEX_SR_X_MAX)))

RestText(row) == JoinSp(Texts(SelectSeq(row, LAMBDA w : w.x0 >= INDEX_SR_X_MAX)))

\* the entry row [sr, form no, description] built from rest_text
FormatBEntry(sr, rest_text) ==
    LET m == _FORM_SPLIT_RE(Strip(rest_text))
    IN  IF m # <<>> THEN <<sr, Strip(m[1]), Strip(m[2])>>
        ELSE <<sr, Strip(rest_text), <<>> >>

\* the while loop of Format B, i is the (1-based) row reached
RECURSIVE FormatBLoop(_, _, _)
FormatBLoop(rows, i, result) ==
    IF i > Len(rows) THEN result
    ELSE LET row       == SortByX0(rows[i])
             sr_text   == SrText(row)
             rest_text == RestText(row)
             flat      == Strip(sr_text \o <<" ">> \o rest_text)
         IN  IF flat = <<>> \/ _FOOTER_HDR_RE(flat)
             THEN FormatBLoop(rows, i + 1, result)
             ELSE IF sr_text # <<>> /\ rest_text # <<>>
             THEN FormatBLoop(rows, i + 1, Append(result, FormatBEntry(Strip(sr_text), rest_text)))
             ELSE IF rest_text # <<>>
             THEN LET nxt    == IF i + 1 <= Len(rows) THEN SortByX0(rows[i + 1]) ELSE <<>>
                      orphan == /\ i + 1 <= Len(rows)
                                /\ SrText(nxt) # <<>>
                                /\ RestText(nxt) = <<>>
                                /\ IsDigitText(Strip(SrText(nxt)))
                  IN  IF orphan
                      THEN FormatBLoop(rows, i + 2,
                               Append(result, FormatBEntry(Strip(SrText(nxt)), rest_text)))
                      ELSE FormatBLoop(rows, i + 1,
                               Append(result, FormatBEntry(<<>>, rest_text)))
             ELSE \* only a serial number: attach to the previous entry
                  IF result # <<>> /\ result[Len(result)][1] = <<>>
                  THEN FormatBLoop(rows, i + 1,
                           [result EXCEPT ![Len(result)][1] = Strip(sr_text)])
                  ELSE FormatBLoop(rows, i + 1, result)

FormatBHeader ==
    << <<"S", "r", ".", " ", "N", "o", ".">>,
       <<"F", "o", "r", "m", " ", "N", "o", ".">>,
       W_Description >>

extract_index_format_b(rows, header_ri) ==
    FormatBLoop(rows, header_ri + 1, <<FormatBHeader>>)

\* the x0 of the header words that are more than 20 units right of the last
\* one kept
RECURSIVE SeenX(_, _, _)
SeenX(hdr, i, seen) ==
    IF i > Len(hdr) THEN seen
    ELSE IF seen = <<>> \/ hdr[i].x0 - seen[Len(seen)] > 20
         THEN SeenX(hdr, i + 1, Append(seen, hdr[i].x0))
         ELSE SeenX(hdr, i + 1, seen)

RECURSIVE MaxX1(_)
MaxX1(ws) == IF Len(ws) = 1 THEN ws[1].x1 ELSE Max(ws[1].x1, MaxX1(Tail(ws)))

\* pages_x: x0 of the first 'Pages' word of the header row, minus 5
PagesX(hdr_row) ==
    LET ps == SelectSeq(hdr_row, LAMBDA w : w.text = W_Pages)
    IN  ps[1].x0 - 5

\* the zone limits of Format A, doubled: <<2 form_x, 2 desc_x, 2 pages_x>>
FormatAZones(hdr_row) ==
    LET pages_x == PagesX(hdr_row)
        seen_x  == SeenX(SortByX0(hdr_row), 1, <<>>)
        has_form == Len(seen_x) >= 2
        form_x2 == IF has_form THEN seen_x[1] + seen_x[2] ELSE 0
        fcw     == SelectSeq(hdr_row, LAMBDA w :
                       /\ 2 * w.x0 >= form_x2
                       /\ 2 * w.x0 < pages_x
                       /\ w.text \notin {W_Description, W_Pages})
        desc_x2 == IF has_form /\ form_x2 # 0 /\ pages_x # 0
                   THEN IF fcw # <<>> THEN 2 * (MaxX1(fcw) + 5)
                        ELSE 2 * (seen_x[2] + 40)
                   ELSE 2 * 105
    IN  << IF has_form THEN form_x2 ELSE 2 * 50, desc_x2, 2 * pages_x >>

\* cells[k] += (' ' if cells[k] else '') + w['text']
RECURSIVE FormatAFill(_, _, _, _)
FormatAFill(row, i, cells, z) ==
    IF i > Len(row) THEN cells
    ELSE LET x2 == 2 * row[i].x0
             k  == IF x2 < z[1] THEN 1
                   ELSE IF x2 < z[2] THEN 2
                   ELSE IF x2 < z[3] THEN 3
                   ELSE 4
         IN  FormatAFill(row, i + 1,
                 [cells EXCEPT ![k] = IF cells[k] # <<>> THEN cells[k] \o <<" ">> \o row[i].text
                                      ELSE row[i].text], z)

FormatARawRow(row, z) == FormatAFill(row, 1, Blank(4), z)

FormatAKeepsRow(row, z) ==
    LET flat == JoinSp(NonEmpty(FormatARawRow(row, z)))
    IN  flat # <<>> /\ ~_FOOTER_HDR_RE(flat)

FormatAOutRow(row, z) == [k \in 1..4 |-> Strip(FormatARawRow(row, z)[k])]

FormatAOutRows(kept, z) == [i \in 1..Len(kept) |-> FormatAOutRow(kept[i], z)]

\* the loop over the rows from the header row on, z being the zone limits
FormatARows(from, z) ==
    FormatAOutRows(SelectSeq(from, LAMBDA rw : FormatAKeepsRow(rw, z)), z)

extract_index_format_a(rows, header_ri) ==
    FormatARows(SubSeq(rows, header_ri, Len(rows)), FormatAZones(rows[header_ri]))

\* h is <<header row, is_format_b>>
IndexFromHeader(rows, h) ==
    IF h[1] = 0 THEN <<>>
    ELSE IF h[2] THEN extract_index_format_b(rows, h[1])
    ELSE extract_index_format_a(rows, h[1])

IndexFromRows(rows) == IndexFromHeader(rows, IndexHeader(rows, 1))

\* extract_index_page(page): list of rows, or None (<<>>)
extract_index_page(page) ==
    IF page.words = <<>> \/ ~detect_index_page(page.words) THEN <<>>
    ELSE IndexFromRows(_group_rows(page.words))

(***************************************************************************)
(* Grid engine: extractor.py.  A provider table is [rows, bbox] with       *)
(* rows = table.extract() and bbox = <<x0, top, x1, bottom>>.              *)
(***************************************************************************)
_PARTICULARS_X_MAX == 230

_SCHEDULE_GAP == 5

_HEADER_MERGE_GAP == 3

HEADER_SCAN_ROWS == 12

HEADER_MIN_WORDS == 3

HEADER_MIN_GAP == 2

REBUILD_KW_ROWS == 8

REBUILD_SPLIT_ROWS == 5

\* min of x0 differences of adjacent words is at least 2
HeaderGapsOk(row) ==
    \A i \in 1..(Len(row) - 1) : row[i + 1].x0 - row[i].x0 >= HEADER_MIN_GAP

\* the loop of _find_column_header_row: the row kept so far (<<>> for None)
RECURSIVE FindHeaderLoop(_, _, _)
FindHeaderLoop(rows, i, best) ==
    IF i > Min(Len(rows), HEADER_SCAN_ROWS) THEN best
    ELSE IF /\ Len(rows[i]) >= HEADER_MIN_WORDS
            /\ HeaderGapsOk(rows[i])
            /\ Len(rows[i]) > Len(best)
         THEN FindHeaderLoop(rows, i + 1, rows[i])
         ELSE FindHeaderLoop(rows, i + 1, best)

_find_column_header_row(rows) == FindHeaderLoop(rows, 1, <<>>)

\* the loop of _merge_header_words over the words sorted by x0
RECURSIVE MergeLoop(_, _, _)
MergeLoop(hw, i, groups) ==
    IF i > Len(hw) THEN groups
    ELSE LET n == Len(groups)
         IN  IF hw[i].x0 - groups[n].x1 <= _HEADER_MERGE_GAP
             THEN MergeLoop(hw, i + 1,
                     [groups EXCEPT ![n] = [x0 |-> groups[n].x0, x1 |-> hw[i].x1,
                                            text |-> groups[n].text \o <<" ">> \o hw[i].text]])
             ELSE MergeLoop(hw, i + 1,
                     Append(groups, [x0 |-> hw[i].x0, x1 |-> hw[i].x1, text |-> hw[i].text]))

_merge_header_words(header_words) ==
    LET hw == SortByX0(header_words)
    IN  MergeLoop(hw, 2, <<[x0 |-> hw[1].x0, x1 |-> hw[1].x1, text |-> hw[1].text]>>)

\* any("\n" in str(c) for c in row if c)
HasLineBreak(cell) == \E i \in 1..Len(cell) : cell[i] = "\n"

_is_index_table(table_data) ==
    /\ Len(table_data) = 2
    /\ \E i \in 1..Len(table_data[2]) : HasLineBreak(table_data[2][i])

\* str.split("\n")
RECURSIVE SplitLines(_)
SplitLines(s) ==
    IF \E i \in 1..Len(s) : s[i] = "\n"
    THEN LET k == CHOOSE i \in 1..Len(s) :
                      s[i] = "\n" /\ \A j \in 1..(i - 1) : s[j] # "\n"
         IN  <<SubSeq(s, 1, k - 1)>> \o SplitLines(SubSeq(s, k + 1, Len(s)))
    ELSE <<s>>

\* the line count of the first column instead of the longest
MaxLen_first_column(cols) == IF cols = <<>> THEN 0 ELSE Len(cols[1])

RECURSIVE MaxLen(_)
MaxLen(cols) == IF cols = <<>> THEN 0 ELSE Max(Len(cols[1]), MaxLen(Tail(cols)))

_expand_index_table(table_data) ==
    LET data_row == table_data[2]
        cols     == [i \in 1..Len(data_row) |->
                        IF data_row[i] # <<>> THEN SplitLines(data_row[i]) ELSE <<>>]
        max_rows == MaxLen(cols)
    IN  <<table_data[1]>> \o
        [i \in 1..max_rows |->
            [c \in 1..Len(cols) |-> IF i <= Len(cols[c]) THEN cols[c][i] ELSE <<>>]]

\* k in text
Contains(text, k) == \E i \in 1..Len(text) : LitAt(text, i, k)

IRDAI_COL_KW ==
    { <<"L", "I", "F", "E">>,
      <<"P", "E", "N", "S", "I", "O", "N">>,
      <<"H", "E", "A", "L", "T", "H">>,
      <<"A", "N", "N", "U", "I", "T", "Y">>,
      <<"V", "A", "R", ".", "I", "N", "S">>,
      <<"V", "A", "R", ".", " ", "I", "N", "S">> }

\* sum(1 for k in IRDAI_COL_KW if k in text.upper()) >= 2, cells with a
\* line break skipped
\* the keyword test without "if '\n' in text: continue"
HasTwoKeywords_multiline(cell) ==
    /\ cell # <<>>
    /\ Cardinality({k \in IRDAI_COL_KW : Contains(Upper(cell), k)}) >= 2

HasTwoKeywords(cell) ==
    /\ cell # <<>>
    /\ ~HasLineBreak(cell)
    /\ Cardinality({k \in IRDAI_COL_KW : Contains(Upper(cell), k)}) >= 2

\* re.search(r"\d\s+[,\d]", cell)
SplitNumberAt(s, i) ==
    LET j == SkipSpaces(s, i + 1)
    IN  /\ IsDigit(s[i])
        /\ j > i + 1
        /\ j <= Len(s)
        /\ (s[j] = "," \/ IsDigit(s[j]))

HasSplitNumber(cell) == SearchAt(cell, SplitNumberAt)

AnyCell(table_data, n, P(_)) ==
    \E r \in 1..Min(Len(table_data), n) :
        \E c \in 1..Len(table_data[r]) : P(table_data[r][c])

should_rebuild(table_data) ==
    IF table_data = <<>> THEN FALSE
    ELSE \/ _is_index_table(table_data)
         \/ AnyCell(table_data, REBUILD_KW_ROWS, HasTwoKeywords)
         \/ AnyCell(table_data, REBUILD_SPLIT_ROWS, HasSplitNumber)

\* the words of the page inside the bounding box
WordsInBox(page, bbox) ==
    SelectSeq(page.words, LAMBDA w :
        /\ bbox[1] <= w.x0 /\ w.x0 <= bbox[3]
        /\ bbox[2] <= w.top /\ w.top <= bbox[4])

\* the loop over the (doubled) boundaries of rebuild_table, 0-based column
RECURSIVE GridZoneLoop(_, _, _, _)
GridZoneLoop(xc2, boundaries2, i, ci) ==
    IF i > Len(boundaries2) THEN ci
    ELSE IF xc2 > boundaries2[i] THEN GridZoneLoop(xc2, boundaries2, i + 1, i + 2)
    ELSE ci

\* the column (0-based) rebuild_table gives a word
GridColumn(w, groups) ==
    LET boundaries2 == [i \in 1..(Len(groups) - 1) |-> groups[i].x1 + groups[i + 1].x0]
        num_cols    == 2 + Len(groups)
        ci == IF w.x0 < _PARTICULARS_X_MAX THEN 0
              ELSE IF w.x0 < groups[1].x0 - _SCHEDULE_GAP THEN 1
              ELSE GridZoneLoop(w.x0 + w.x1, boundaries2, 1, 2)
    IN  Min(ci, num_cols - 1)

RECURSIVE GridFillRow(_, _, _, _)
GridFillRow(rw, i, row, groups) ==
    IF i > Len(rw) THEN row
    ELSE GridFillRow(rw, i + 1, PutCell(row, GridColumn(rw[i], groups), rw[i].text), groups)

\* the row built for rw before the normaliser
GridRawRow(rw, groups) == GridFillRow(rw, 1, Blank(2 + Len(groups)), groups)

\* the rows appended to the result, in order
GridOutRows(kept, groups) ==
    [i \in 1..Len(kept) |-> fix_number_splits_grid(GridRawRow(kept[i], groups))]

\* the loop "for rw in rows" of rebuild_table
GridRows(rows, groups) ==
    GridOutRows(SelectSeq(rows, LAMBDA rw : AnyText(GridRawRow(rw, groups))), groups)

\* rebuild_table after the column header row is found
GridFromHeader(rows, header) ==
    IF header = <<>> \/ Len(header) < 2 THEN <<>>
    ELSE GridRows(rows, _merge_header_words(header))

GridFromRows(rows) == GridFromHeader(rows, _find_column_header_row(rows))

GridFromWords(words) ==
    IF words = <<>> THEN <<>> ELSE GridFromRows(_group_into_rows(words))

\* rebuild_table(page, bbox): list of rows, or None (<<>>)
rebuild_table(page, bbox) == GridFromWords(WordsInBox(page, bbox))

\* process_table that hands on what rebuild_table returned
RebuiltOrRaw_rebuilt_only(rebuilt, raw) == rebuilt

\* "if rebuilt: return rebuilt", else the raw table
RebuiltOrRaw(rebuilt, raw) == IF rebuilt # <<>> THEN rebuilt ELSE raw

\* process_table(page, table)
process_table(page, table) ==
    IF _is_index_table(table.rows) THEN _expand_index_table(table.rows)
    ELSE IF should_rebuild(table.rows)
         THEN RebuiltOrRaw(rebuild_table(page, table.bbox), table.rows)
    ELSE table.rows

(***************************************************************************)
(* Engine selector: should_use_header_cols of extractor_gap.py, and the    *)
(* per-page routines of extract_tables_smart_merged.py.                    *)
(* A page is [page_number, width, height, words, text, tables, images,     *)
(* chars, lines, rects]; a content item is [type, data].                   *)
(***************************************************************************)
MIN_HDR_ROWS == 5

COL0_FIRST_ROW == 5

COL0_LAST_ROW == 20

MERGED_FIRST_ROW == 3

MERGED_LAST_ROW == 30

PHANTOM_SKIP_ROWS == 5

PHANTOM_MAX_COLS == 8

\* data[a:b] of Python, on a 1-based sequence
Slice(data, a, b) == SubSeq(data, a + 1, Min(Len(data), b))

\* _EMBEDDED_NUM_RE.search(s), _EMBEDDED_NUM_RE = \d{3,}[,\d]*
EmbeddedNumAt(s, i) == i + 2 <= Len(s) /\ \A k \in i..(i + 2) : IsDigit(s[k])

_EMBEDDED_NUM_RE(s) == SearchAt(s, EmbeddedNumAt)

_pp_col0_has_embedded_number(pp_data) ==
    IF pp_data = <<>> THEN FALSE
    ELSE LET rows == Slice(pp_data, COL0_FIRST_ROW, COL0_LAST_ROW)
         IN  \E r \in 1..Len(rows) :
                /\ rows[r] # <<>>
                /\ rows[r][1] # <<>>
                /\ _EMBEDDED_NUM_RE(rows[r][1])

\* _MERGED_SCHED_RE.match(s), _MERGED_SCHED_RE = ^L-\d+[,\d\(\)]+ : after
\* "L-" and one digit, one more character among digits , ( ) is needed
_MERGED_SCHED_RE(s) ==
    /\ Len(s) >= 4
    /\ s[1] = "L" /\ s[2] = "-"
    /\ IsDigit(s[3])
    /\ LET j == SkipDigits(s, 3)
       IN  \/ j > 4
           \/ j <= Len(s) /\ s[j] \in {",", "(", ")"}

_pp_has_merged_schedule(pp_data) ==
    IF pp_data = <<>> THEN FALSE
    ELSE LET rows == Slice(pp_data, MERGED_FIRST_ROW, MERGED_LAST_ROW)
         IN  \E r \in 1..Len(rows) : \E c \in 1..Len(rows[r]) :
                /\ rows[r][c] # <<>>
                /\ _MERGED_SCHED_RE(Strip(rows[r][c]))

\* mutant of HdrOrNone: reason (c), the merged schedule cell, is not tested
HdrOrNone_without_reason_c(hdr_data, pp_data) ==
    IF hdr_data = <<>> \/ Len(hdr_data) < MIN_HDR_ROWS THEN <<>>
    ELSE IF \/ Len(hdr_data[1]) > (IF pp_data # <<>> THEN Len(pp_data[1]) ELSE 0)
            \/ _pp_col0_has_embedded_number(pp_data)
         THEN hdr_data
         ELSE <<>>

\* the part of should_use_header_cols that follows extract_header_cols
HdrOrNone(hdr_data, pp_data) ==
    IF hdr_data = <<>> \/ Len(hdr_data) < MIN_HDR_ROWS THEN <<>>
    ELSE IF \/ Len(hdr_data[1]) > (IF pp_data # <<>> THEN Len(pp_data[1]) ELSE 0)
            \/ _pp_col0_has_embedded_number(pp_data)
            \/ _pp_has_merged_schedule(pp_data)
         THEN hdr_data
         ELSE <<>>

\* not col_centers or len(col_centers) < _MIN_HDR_COLS
TooFewCenters(cen) == cen.col_centers = <<>> \/ Len(cen.col_centers) < _MIN_HDR_COLS

\* should_use_header_cols(page, pp_data): the table chosen, or <<>> for
\* (False, None)
should_use_header_cols(page, pp_data) ==
    IF TooFewCenters(detect_col_centers(page.words, page.width)) THEN <<>>
    ELSE HdrOrNone(extract_header_cols(page), pp_data)

TableItem(data) == [type |-> "table", data |-> data]

TextItem(lines) == [type |-> "text", data |-> lines]

\* [l for l in text.split("\n") if l.strip()]
TextLines(text) == SelectSeq(SplitLines(text), LAMBDA l : Strip(l) # <<>>)

\* mutant of TextContent: a text item is appended also without a text line
TextContent_unconditional(page) == <<TextItem(TextLines(page.text))>>

\* the final "else" of both page routines: the raw text lines, if any
TextContent(page) ==
    IF TextLines(page.text) # <<>> THEN <<TextItem(TextLines(page.text))>> ELSE <<>>

\* idx_data when the page is an index page, else <<>>
IndexData(page) ==
    IF detect_index_page(page.words) THEN extract_index_page(page) ELSE <<>>

\* [{"type": "table", "data": data}] when data is not empty, else the rest
TableOrElse(data, rest) == IF data # <<>> THEN <<TableItem(data)>> ELSE rest

\* sum(len(t.extract()) for t in tables)
RECURSIVE SumRows(_)
SumRows(tables) ==
    IF tables = <<>> THEN 0 ELSE Len(tables[1].rows) + SumRows(Tail(tables))

\* max((len(t.extract()[0]) for t in tables if t.extract()), default=1)
RECURSIVE MaxCols(_)
MaxCols(tables) ==
    IF tables = <<>> THEN 0
    ELSE Max(IF tables[1].rows # <<>> THEN Len(tables[1].rows[1]) ELSE 0,
             MaxCols(Tail(tables)))

PpCols(tables) ==
    IF \E i \in 1..Len(tables) : tables[i].rows # <<>> THEN MaxCols(tables) ELSE 1

PpScore(tables) == SumRows(tables) * PpCols(tables)

\* _pp_has_empty_cols(data, skip_rows=5): a middle column with no text
_pp_has_empty_cols(data) ==
    IF data = <<>> \/ Len(data[1]) < 3 THEN FALSE
    ELSE LET data_rows == IF Len(data) > PHANTOM_SKIP_ROWS
                          THEN SubSeq(data, PHANTOM_SKIP_ROWS + 1, Len(data))
                          ELSE data
         IN  \E ci \in 2..(Len(data[1]) - 1) :
                \A r \in 1..Len(data_rows) :
                    ~(ci <= Len(data_rows[r]) /\ data_rows[r][ci] # <<>>)

\* mutant of GapBeatsGrid: any higher score wins, without the margin of 1.5
GapBeatsGrid_any_margin(page, gap_data) ==
    /\ gap_data # <<>>
    /\ Len(gap_data) * Len(gap_data[1]) > PpScore(page.tables)
    /\ Len(gap_data[1]) >= PpCols(page.tables)

\* gap_data and gap_score > pp_score * 1.5 and gap_cols >= pp_cols
GapBeatsGrid(page, gap_data) ==
    /\ gap_data # <<>>
    /\ 2 * (Len(gap_data) * Len(gap_data[1])) > 3 * PpScore(page.tables)
    /\ Len(gap_data[1]) >= PpCols(page.tables)

\* mutant of GapReplacesPhantom: the width of the grid table is not tested
GapReplacesPhantom_any_width(page, pp_data, gap_data) ==
    /\ pp_data # <<>>
    /\ _pp_has_empty_cols(pp_data)
    /\ gap_data # <<>>
    /\ Len(gap_data[1]) >= 2

\* pp_has_phantom and gap_data and gap_cols >= 2 and pp_cols <= 8
GapReplacesPhantom(page, pp_data, gap_data) ==
    /\ pp_data # <<>>
    /\ _pp_has_empty_cols(pp_data)
    /\ gap_data # <<>>
    /\ Len(gap_data[1]) >= 2
    /\ PpCols(page.tables) <= PHANTOM_MAX_COLS

\* the "Use pdfplumber result" part
GridContent(page) ==
    IF page.tables # <<>>
    THEN [i \in 1..Len(page.tables) |-> TableItem(process_table(page, page.tables[i]))]
    ELSE TextContent(page)

\* pp_data = process_table(page, tables[0]) if tables, else []
pp_data(page) ==
    IF page.tables # <<>> THEN process_table(page, page.tables[1]) ELSE <<>>

\* the gap-based fallback and the "Use pdfplumber result" part
GapOrGrid(page, pp, gap_data) ==
    IF GapBeatsGrid(page, gap_data) THEN <<TableItem(gap_data)>>
    ELSE IF GapReplacesPhantom(page, pp, gap_data) THEN <<TableItem(gap_data)>>
    ELSE GridContent(page)

\* _extract_page_pdfplumber from "Run pdfplumber first" on, pp being pp_data
PlumberFromPp(page, pp) ==
    TableOrElse(should_use_header_cols(page, pp),
                GapOrGrid(page, pp, extract_gap_based(page)))

\* _extract_page_pdfplumber(page, current_form)
_extract_page_pdfplumber(page) ==
    TableOrElse(IndexData(page), PlumberFromPp(page, pp_data(page)))

\* mutant of _extract_page_gap: the gap engine is asked before the header
\* engine
_extract_page_gap_gap_first(page) ==
    TableOrElse(IndexData(page),
        TableOrElse(extract_gap_based(page),
            TableOrElse(should_use_header_cols(page, <<>>), TextContent(page))))

\* _extract_page_gap(page, current_form)
_extract_page_gap(page) ==
    TableOrElse(IndexData(page),
        TableOrElse(should_use_header_cols(page, <<>>),
            TableOrElse(extract_gap_based(page), TextContent(page))))

(***************************************************************************)
(* extract_document of extract_tables_smart_merged.py, and                 *)
(* extract_with_docling of extractor_docling.py as far as the merge sees   *)
(* it.  A page block is [page_number, form_name, is_index, content,        *)
(* engine]; engine None is written "none".                                 *)
(***************************************************************************)
CHUNK_SIZE == 20

IsFormChar(c) == IsAlnum(c) \/ c = "-"

RECURSIVE SkipFormChars(_, _)
SkipFormChars(s, i) ==
    IF i <= Len(s) /\ IsFormChar(s[i]) THEN SkipFormChars(s, i + 1) ELSE i

\* end (exclusive) of the match of FORM\s+L-[\dA-Za-z\-]+ that starts at i,
\* or 0 when there is none
FormMatchEnd(s, i) ==
    LET j == SkipSpaces(s, i + 4)
        k == SkipFormChars(s, j + 2)
    IN  IF /\ LitAt(s, i, <<"F", "O", "R", "M">>)
           /\ j > i + 4
           /\ LitAt(s, j, <<"L", "-">>)
           /\ k > j + 2
        THEN k ELSE 0

\* m = re.search(r"FORM\s+L-[\dA-Za-z\-]+", text); m.group().strip(), or
\* <<>> when m is None
FormSearch(text) ==
    IF \E i \in 1..Len(text) : FormMatchEnd(text, i) # 0
    THEN LET i == CHOOSE a \in 1..Len(text) :
                      /\ FormMatchEnd(text, a) # 0
                      /\ \A b \in 1..(a - 1) : FormMatchEnd(text, b) = 0
         IN  Strip(SubSeq(text, i, FormMatchEnd(text, i) - 1))
    ELSE <<>>

\* mutant of NextForm: a page without an identifier resets the form
NextForm_reset(form, text) == FormSearch(text)

\* if m: current_form = m.group().strip()
NextForm(form, text) == IF FormSearch(text) # <<>> THEN FormSearch(text) ELSE form

\* the "Detect index page" loop over pb["content"]
IsIndexContent(content) ==
    \E i \in 1..Len(content) :
        /\ content[i].type = "table"
        /\ Len(content[i].data) = 2
        /\ content[i].data[2] # <<>>
        /\ \E c \in 1..Len(content[i].data[2]) : HasLineBreak(content[i].data[2][c])

\* the content a page gets in the page loop, by its type
RouteContent(page, pg_type) ==
    IF pg_type = "lines" THEN _extract_page_pdfplumber(page)
    ELSE IF pg_type = "h_only" THEN _extract_page_gap(page)
    ELSE <<>>

\* the page block appended for a page in the page loop
RoutedBlock(page, form, pg_type, content) ==
    [page_number |-> page.page_number, form_name |-> form,
     is_index |-> IsIndexContent(content), content |-> content, engine |-> pg_type]

PageBlock(page, form, force) ==
    IF force
    THEN [page_number |-> page.page_number, form_name |-> form, is_index |-> FALSE,
          content |-> <<>>, engine |-> "none"]
    ELSE RoutedBlock(page, form, classify_page(page),
                     RouteContent(page, classify_page(page)))

\* mutant of QueuedForDocling: a page the gap or header engine can resolve
\* is not queued
QueuedForDocling_if_unresolved(page, force) ==
    \/ force
    \/ /\ classify_page(page) \notin {"lines", "h_only"}
       /\ extract_gap_based(page) = <<>>
       /\ extract_header_cols(page) = <<>>

\* whether the page loop queues the page for docling
QueuedForDocling(page, force) ==
    force \/ classify_page(page) \notin {"lines", "h_only"}

\* the 1-indexed start pages of the chunks of _split_pdf_to_chunks
ChunkStarts(total) == {s \in 1..total : (s - 1) % CHUNK_SIZE = 0}

\* the chunks kept when specific pages are requested
RequestedChunks(total, page_numbers) ==
    {s \in ChunkStarts(total) :
        \E k \in 1..Len(page_numbers) :
            s <= page_numbers[k] /\ page_numbers[k] <= s + CHUNK_SIZE - 1}

\* the block _extract_chunk_worker builds for one page
DoclingBlock(pg_num, tables) ==
    [page_number |-> pg_num, form_name |-> <<>>, is_index |-> FALSE,
     content |-> tables, engine |-> "docling"]

\* all_blocks.sort(key = page_number) over blocks of distinct pages
RECURSIVE AscendingSeq(_)
AscendingSeq(S) ==
    IF S = {} THEN <<>>
    ELSE LET m == CHOOSE x \in S : \A y \in S : x <= y
         IN  <<m>> \o AscendingSeq(S \ {m})

\* mutant of extract_with_docling: the blocks are not filtered to the
\* requested pages
extract_with_docling_unfiltered(total, page_numbers, failed, tables) ==
    LET good  == RequestedChunks(total, page_numbers) \ failed
        pages == {p \in 1..total : \E s \in good : s <= p /\ p <= s + CHUNK_SIZE - 1}
        srt   == AscendingSeq(pages)
    IN  [i \in 1..Len(srt) |-> DoclingBlock(srt[i], tables)]

\* extract_with_docling(pdf_path, page_numbers): the blocks of the chunks
\* whose worker did not fail, sorted by page number and filtered to the
\* requested pages; tables is what docling finds on a page
extract_with_docling(total, page_numbers, failed, tables) ==
    LET good  == RequestedChunks(total, page_numbers) \ failed
        pages == {p \in 1..total :
                     /\ \E s \in good : s <= p /\ p <= s + CHUNK_SIZE - 1
                     /\ \E k \in 1..Len(page_numbers) : page_numbers[k] = p}
        srt   == AscendingSeq(pages)
    IN  [i \in 1..Len(srt) |-> DoclingBlock(srt[i], tables)]

\* mutant of MergeDocling: the blocks docling returned become the document
MergeDocling_blocks_only(doc, blocks) == blocks

\* the merge loop: content and engine of the blocks docling returned
MergeDocling(doc, blocks) ==
    [k \in 1..Len(doc) |->
        IF \E b \in 1..Len(blocks) :
               blocks[b].page_number = doc[k].page_number
        THEN LET db == blocks[CHOOSE b \in 1..Len(blocks) :
                           blocks[b].page_number = doc[k].page_number]
             IN  [doc[k] EXCEPT !.content = db.content, !.engine = "docling"]
        ELSE doc[k]]

\* the ImportError branch: the queued pages go through _extract_page_gap
GapFallbackBlocks(doc, pages, queued) ==
    [k \in 1..Len(doc) |->
        IF \E p \in 1..Len(pages) :
               /\ pages[p].page_number = doc[k].page_number
               /\ \E q \in 1..Len(queued) : queued[q] = pages[p].page_number
        THEN LET page == pages[CHOOSE p \in 1..Len(pages) :
                             pages[p].page_number = doc[k].page_number]
             IN  [doc[k] EXCEPT !.content = _extract_page_gap(page),
                                !.engine = "gap-fallback"]
        ELSE doc[k]]

(***************************************************************************)
(* Pages for SpecEngine and SpecPage.  A page is laid out from row         *)
(* templates, 12 units apart from top 50 downwards, on a sheet 500 units   *)
(* wide; the provider's tables are rectangular, as table.extract() makes   *)
(* them.                                                                   *)
(***************************************************************************)
MaxDataRows == 4

Tok(t, x0, x1) == [text |-> t, x0 |-> x0, x1 |-> x1]

RowAt(tpl, top) ==
    [i \in 1..Len(tpl) |->
        [text |-> tpl[i].text, x0 |-> tpl[i].x0, x1 |-> tpl[i].x1, top |-> top]]

RECURSIVE Layout(_, _)
Layout(tpls, k) ==
    IF k > Len(tpls) THEN <<>>
    ELSE RowAt(tpls[k], 50 + 12 * (k - 1)) \o Layout(tpls, k + 1)

\* a title line that carries the form identifier
TitleRow == <<Tok(<<"F", "O", "R", "M">>, 20, 50), Tok(<<"L", "-", "4">>, 55, 70)>>

\* period headers: bare years, and month names
YearHeaderRow ==
    <<Tok(W_Particulars, 20, 70), Tok(<<"2", "0", "2", "4">>, 300, 320), Tok(<<"2", "0", "2", "3">>, 400, 420)>>

MonthHeaderRow ==
    <<Tok(<<"S", "c", "h", "e", "d", "u", "l", "e">>, 20, 60), Tok(W_Particulars, 280, 330), Tok(<<"M", "a", "r", "c", "h">>, 335, 365),
      Tok(<<"J", "u", "n", "e">>, 400, 420)>>

\* the segment names of a segmental form
KeywordHeaderRow ==
    <<Tok(<<"L", "I", "F", "E">>, 200, 230), Tok(<<"P", "E", "N", "S", "I", "O", "N">>, 250, 280), Tok(<<"H", "E", "A", "L", "T", "H">>, 300, 330),
      Tok(<<"A", "N", "N", "U", "I", "T", "Y">>, 350, 380), Tok(<<"V", "A", "R", ".", "I", "N", "S">>, 400, 430), Tok(W_TOTAL, 450, 480)>>

IndexAHeaderRow ==
    <<Tok(W_Sr, 20, 35), Tok(W_Form, 140, 165), Tok(W_Description, 200, 260),
      Tok(W_Pages, 400, 430)>>

IndexBHeaderRow ==
    <<Tok(W_Sr, 20, 35), Tok(W_Form, 140, 165), Tok(<<"N", "o", ".">>, 170, 185)>>

\* a row of column numbers, set wide apart
ColumnNumberRow ==
    <<Tok(<<"(", "1", ")">>, 210, 225), Tok(<<"(", "2", ")">>, 240, 255),
      Tok(<<"(", "3", ")">>, 340, 355), Tok(<<"(", "4", ")">>, 370, 385),
      Tok(<<"(", "5", ")">>, 440, 455), Tok(<<"(", "6", ")">>, 470, 485)>>

\* five segment names, the last two touching: four columns
ShortKeywordHeaderRow ==
    <<Tok(<<"L", "I", "F", "E">>, 200, 230), Tok(<<"P", "E", "N", "S", "I", "O", "N">>, 250, 280), Tok(<<"H", "E", "A", "L", "T", "H">>, 300, 330),
      Tok(<<"V", "A", "R", ".">>, 400, 430), Tok(<<"I", "N", "S">>, 432, 450)>>

HeaderRows ==
    { <<>>, <<YearHeaderRow>>, <<MonthHeaderRow>>, <<KeywordHeaderRow>>,
      <<IndexAHeaderRow>>, <<IndexBHeaderRow>>, <<ColumnNumberRow>>,
      <<ShortKeywordHeaderRow>> }

\* data rows: two plain values; a label of two words and a number split
\* in two tokens; a schedule reference and a negative value; an index entry
DataRows ==
    << <<Tok(<<"N", "e", "t">>, 20, 40), Tok(<<"1", ",", "2", "0", "0">>, 300, 325), Tok(<<"1", ",", "1", "0", "0">>, 400, 425)>>,
       <<Tok(<<"P", "r", "e", "m", "i", "u", "m">>, 20, 60), Tok(<<"p", "a", "i", "d">>, 65, 85), Tok(<<"5">>, 290, 295),
         Tok(<<",", "3", "6", ",", "8", "9", "7">>, 297, 325), Tok(<<"1", "2">>, 405, 415)>>,
       <<Tok(<<"a", "b", "c">>, 20, 35), Tok(<<"L", "-", "4">>, 150, 165), Tok(<<"(", "4", "5", ")">>, 305, 325),
         Tok(<<"7">>, 410, 415)>>,
       <<Tok(<<"1">>, 20, 25), Tok(<<"L", "-", "1", "-", "A">>, 140, 170), Tok(<<"-">>, 175, 178),
         Tok(<<"R", "e", "v", "e", "n", "u", "e">>, 180, 220)>> >>

DataRow(k) == DataRows[((k - 1) % Len(DataRows)) + 1]

\* what may follow the data rows: a version footer, a page number
VersionRow == <<Tok(<<"V", "e", "r", "s", "i", "o", "n", ":", "1">>, 20, 60)>>

PageNumberRow == <<Tok(<<"3">>, 250, 255)>>

FooterRows == { <<>>, <<VersionRow>>, <<PageNumberRow>> }

WordLists ==
    { Layout(t \o h \o [k \in 1..n |-> DataRow(k)] \o f, 1) :
        t \in {<<>>, <<TitleRow>>}, h \in HeaderRows, n \in 0..MaxDataRows,
        f \in FooterRows }

\* nr rows of nc cells, all holding fill
Grid(nr, nc, fill) == Repeat(Repeat(fill, nc), nr)

\* a clean 3-column table
CleanTable ==
    [rows |-> << <<W_Particulars, <<"2", "0", "2", "4">>, <<"2", "0", "2", "3">>>>,
                 <<<<"N", "e", "t">>, <<"1", ",", "2", "0", "0">>, <<"1", ",", "1", "0", "0">>>>,
                 <<<<"a", "b", "c">>, <<"(", "4", "5", ")">>, <<"7">>>> >>,
     bbox |-> <<0, 0, 500, 800>>]

\* a 2-row table whose second row stacks the entries of each column
StackedTable ==
    [rows |-> << <<<<"S", "r">>, <<"F", "o", "r", "m">>, <<"D", "e", "s", "c">>>>,
                 <<<<"1", "\n", "2">>, <<"L", "-", "1", "\n", "L", "-", "2", "\n", "L", "-", "3">>, <<>> >> >>,
     bbox |-> <<0, 0, 500, 800>>]

\* a table with a number split inside a cell; the box leaves out the title
SplitNumberTable ==
    [rows |-> << <<W_Particulars, <<"2", "0", "2", "4">>, <<"2", "0", "2", "3">>>>,
                 <<<<"P", "r", "e", "m", "i", "u", "m", " ", "p", "a", "i", "d">>, <<"5", " ", ",", "3", "6", ",", "8", "9", "7">>, <<"1", "2">>>> >>,
     bbox |-> <<0, 55, 500, 800>>]

\* a table whose middle column holds nothing
PhantomTable ==
    [rows |-> << <<<<"N", "e", "t">>, <<>>, <<"1", ",", "2", "0", "0">>>>,
                 <<<<"a", "b", "c">>, <<>>, <<"7">>>> >>,
     bbox |-> <<0, 0, 500, 800>>]

\* nine columns, the middle ones empty
WidePhantomTable ==
    [rows |-> [r \in 1..2 |-> [c \in 1..9 |-> IF c \in {1, 9} THEN <<"x">> ELSE <<>>]],
     bbox |-> <<0, 0, 500, 800>>]

\* eight filled columns
WideTable ==
    [rows |-> Grid(6, 8, <<"x">>), bbox |-> <<0, 0, 500, 800>>]

\* eight columns, a value merged into the label cell of the sixth row
EmbeddedNumberTable ==
    [rows |-> [Grid(6, 8, <<"x">>) EXCEPT ![6][1] = <<"N", "e", "t", " ", "1", "2", "3", "4">>],
     bbox |-> <<0, 0, 500, 800>>]

\* eight columns, a schedule reference merged with a value in the fourth row
MergedScheduleTable ==
    [rows |-> [Grid(6, 8, <<"x">>) EXCEPT ![4][2] = <<"L", "-", "4", ",", "5">>],
     bbox |-> <<0, 0, 500, 800>>]

\* a ruled grid that holds no text
EmptyGridTable ==
    [rows |-> Grid(2, 3, <<>>), bbox |-> <<0, 0, 500, 800>>]

TableLists ==
    { <<>>, <<CleanTable>>, <<StackedTable>>, <<SplitNumberTable>>, <<PhantomTable>>,
      <<WidePhantomTable>>, <<WideTable>>, <<EmbeddedNumberTable>>,
      <<MergedScheduleTable>>, <<CleanTable, StackedTable>>, <<EmptyGridTable>> }

\* three vertical rules, three horizontal rules
LinesRules == Repeat([x0 |-> 100, x1 |-> 100, y0 |-> 100, y1 |-> 200], 3)

HOnlyRules == Repeat([x0 |-> 100, x1 |-> 200, y0 |-> 50, y1 |-> 50], 3)

\* the text layer of a page of words: its first row as one line
FirstLine(words) ==
    IF words = <<>> THEN <<>>
    ELSE JoinSp(Texts(SelectSeq(words, LAMBDA w : w.top = words[1].top)))

MkPage(n, words, tables, lines) ==
    [page_number |-> n, width |-> 500, height |-> 800, words |-> words,
     text |-> FirstLine(words), tables |-> tables, images |-> <<>>,
     chars |-> 20 * Len(words), nwords |-> Len(words), lines |-> lines, rects |-> <<>>]

\* SpecEngine: the engines read the words, and the boxes of the tables
EnginePages ==
    { MkPage(1, ws, ts, <<>>) :
        ws \in WordLists,
        ts \in {<<>>, <<StackedTable>>, <<SplitNumberTable>>, <<CleanTable>>} }

\* cell texts for the rebuild decision: two keywords on one line, in lower
\* case, on two lines; one keyword, alone and twice; a merged fragment; a
\* number split before a comma, before a digit, over a line break; two
\* lines without keyword or digit
DecisionCells ==
    { <<"L", "I", "F", "E", " ", "P", "E", "N", "S", "I", "O", "N">>,
      <<"L", "i", "f", "e", " ", "P", "e", "n", "s", "i", "o", "n">>,
      <<"L", "I", "F", "E", "\n", "P", "E", "N", "S", "I", "O", "N">>,
      <<"L", "I", "F", "E">>,
      <<"L", "I", "F", "E", " ", "L", "I", "F", "E">>,
      <<"V", "A", "R", ".", " ", "I", "N", "S">>,
      <<"5", " ", ",", "3">>,
      <<"5", " ", " ", "3">>,
      <<"5", "\n", "3">>,
      <<"a", "\n", "b">> }

\* the row counts of the candidates, and the rows that hold the cell
CandidateRowCounts == {1, 2, 3, 6, 9}

\* candidate tables of two columns: one cell of DecisionCells in the second
\* column of some row, and the table without rows
RebuildCandidates ==
    UNION { { [rows |-> [Grid(nr, 2, <<"x">>) EXCEPT ![r][2] = cell],
               bbox |-> <<0, 0, 500, 800>>] :
                r \in 1..nr, cell \in DecisionCells } :
            nr \in CandidateRowCounts }
    \cup { [rows |-> <<>>, bbox |-> <<0, 0, 500, 800>>] }

\* x-positions of numeric tokens, in the order of the rows that hold them:
\* one left of the cutoff, 300-305-307 and 400-405-407, and 327 and 348 at
\* 20 and 21 units from their left neighbours
BandXs == <<400, 300, 150, 348, 305, 407, 327, 307, 405>>

\* one row of one numeric token for every chosen position
NumberRows(chosen) ==
    LET xs == SelectSeq(BandXs, LAMBDA x : x \in chosen)
    IN  [i \in 1..Len(xs) |-> <<Tok(<<"7">>, xs[i], xs[i] + 5)>>]

\* SpecEngine: pages of numeric tokens only, each position once or twice
ColumnPages ==
    { MkPage(1, Layout(NumberRows(chosen) \o (IF twice THEN NumberRows(chosen) ELSE <<>>), 1),
             <<>>, <<>>) :
        chosen \in SUBSET {BandXs[i] : i \in 1..Len(BandXs)}, twice \in BOOLEAN }

\* rows of a Format B index: an entry with its serial, an entry without,
\* a serial alone, and a footer line
MaxIndexRows == 3

SerialEntryRow ==
    <<Tok(<<"1">>, 20, 25), Tok(<<"L", "-", "1", "-", "A">>, 140, 170), Tok(<<"-">>, 175, 178),
      Tok(<<"R", "e", "v", "e", "n", "u", "e">>, 180, 220)>>

BareEntryRow == <<Tok(<<"L", "-", "1", "4", "-", "I", "n", "v">>, 140, 190)>>

OrphanSerialRow == <<Tok(<<"1", "4">>, 20, 30)>>

IndexRowKinds == {SerialEntryRow, BareEntryRow, OrphanSerialRow, VersionRow}

\* SpecEngine: the Format B header and up to MaxIndexRows rows under it
IndexBPages ==
    { MkPage(1, Layout(<<IndexBHeaderRow>> \o body, 1), <<>>, <<>>) :
        body \in UNION {[1..n -> IndexRowKinds] : n \in 0..MaxIndexRows} }

\* a title line whose words touch
TouchingTitleRow ==
    <<Tok(<<"R", "e", "v", "e", "n", "u", "e">>, 20, 60), Tok(<<"A", "c", "c", "o", "u", "n", "t">>, 60, 100),
      Tok(<<"f", "o", "r">>, 100, 115), Tok(<<"F", "Y">>, 115, 130)>>

\* SpecEngine: a table that asks for a rebuild, its box holding the whole
\* page: a title line, a header row, data rows of three and of four tokens
HeaderPickPages ==
    { MkPage(1, Layout(t \o h \o d, 1),
             <<[rows |-> Grid(3, 2, <<"5", " ", ",", "3">>), bbox |-> <<0, 0, 500, 800>>]>>, <<>>) :
        t \in {<<>>, <<TitleRow>>, <<TouchingTitleRow>>},
        h \in {<<>>, <<YearHeaderRow>>, <<KeywordHeaderRow>>, <<ShortKeywordHeaderRow>>},
        d \in {<<DataRow(1)>>, <<DataRow(1), DataRow(3)>>} }

\* a period line at the left margin
PeriodTitleRow ==
    <<Tok(<<"3", "1", "s", "t">>, 20, 40), Tok(<<"M", "a", "r", "c", "h">>, 45, 75),
      Tok(<<"2", "0", "2", "4">>, 80, 100)>>

\* SpecEngine: pages that open with the period line
PeriodPages ==
    { MkPage(1, Layout(<<PeriodTitleRow>> \o h \o [k \in 1..n |-> DataRow(k)], 1), <<>>, <<>>) :
        h \in {<<>>, <<YearHeaderRow>>, <<MonthHeaderRow>>}, n \in 3..MaxDataRows }

\* SpecEngine: a page that holds one candidate table, without words or
\* under a title and a footer only
CandidatePages ==
    { MkPage(1, ws, <<t>>, <<>>) :
        ws \in {<<>>, Layout(<<TitleRow, VersionRow>>, 1)},
        t \in RebuildCandidates }

\* SpecPage: pages of either topology that reaches a per-page routine
RoutedPages ==
    { MkPage(1, ws, ts, ls) :
        ws \in {w \in WordLists : w = <<>> \/ w[1].text # <<"F", "O", "R", "M">>},
        ts \in TableLists, ls \in {LinesRules, HOnlyRules} }

\* SpecPage: pages without rules, with and without words, and a page that
\* is one image; the page loop queues them
QueuedPages ==
    { MkPage(1, ws, <<>>, <<>>) : ws \in {<<>>, Layout(<<YearHeaderRow, DataRow(1)>>, 1)} }
    \cup { [MkPage(1, <<>>, <<>>, <<>>) EXCEPT
               !.images = <<[width |-> 500, height |-> 700]>>, !.chars = 0] }

NoWords == MkPage(0, <<>>, <<>>, <<>>)

EngIdle ==
    /\ epage = NoWords
    /\ ecall = ""
    /\ eout = <<>>

(***************************************************************************)
(* SpecClassify: one page of geometric primitives, classified once         *)
(***************************************************************************)
MaxPrims == 2

\* line segments: a long vertical, a vertical of exactly 20 units, a long
\* horizontal
LineV == [x0 |-> 100, x1 |-> 100, y0 |-> 100, y1 |-> 200]

LineVShort == [x0 |-> 120, x1 |-> 120, y0 |-> 100, y1 |-> 120]

LineH == [x0 |-> 100, x1 |-> 200, y0 |-> 50, y1 |-> 50]

\* rectangles: thin and tall, thin and wide, a box
RectV == [width |-> 1, height |-> 30]

RectH == [width |-> 30, height |-> 1]

RectBox == [width |-> 30, height |-> 30]

LineLists ==
    { Repeat(LineV, a) \o Repeat(LineVShort, b) \o Repeat(LineH, c) :
        a \in 0..MaxPrims, b \in 0..1, c \in 0..MaxPrims }

RectLists ==
    { Repeat(RectV, a) \o Repeat(RectBox, b) \o Repeat(RectH, c) :
        a \in 0..MaxPrims, b \in 0..1, c \in 0..MaxPrims }

\* images of a 100 x 100 page: a quarter of the page, exactly half of it, 60%
ImgQuarter == [width |-> 50, height |-> 50]

ImgHalf == [width |-> 100, height |-> 50]

ImgLarge == [width |-> 100, height |-> 60]

ImgNoSize == [width |-> 0, height |-> 0]

ImageLists ==
    { <<>>, <<ImgNoSize>>, <<ImgQuarter>>, <<ImgHalf>>, <<ImgLarge>>,
      <<ImgQuarter, ImgQuarter>>, <<ImgQuarter, ImgHalf>> }

\* (number of characters, number of word tokens) of the text layer: a word
\* holds at least one character
TextLayers ==
    { <<0, 0>>, <<19, 4>>, <<19, 19>>, <<20, 4>>, <<20, 20>>, <<24, 6>>, <<60, 21>> }

ClassifyPages ==
    { [width |-> 100, height |-> 100, images |-> im, chars |-> tl[1],
       nwords |-> tl[2], lines |-> ls, rects |-> rs] :
        im \in ImageLists, tl \in TextLayers, ls \in LineLists, rs \in RectLists }

NoPage ==
    [width |-> 0, height |-> 0, images |-> <<>>, chars |-> 0, nwords |-> 0,
     lines |-> <<>>, rects |-> <<>>]

ClassIdle ==
    /\ cpage = NoPage
    /\ ctag = ""

ClassInit ==
    /\ cpage \in ClassifyPages
    /\ ctag = ""

\* t = classify_page(page)
ClassifyPage ==
    /\ cpage # NoPage
    /\ ctag = ""
    /\ ctag' = classify_page(cpage)
    /\ UNCHANGED cpage

(***************************************************************************)
(* SpecEngine: one page, each engine run on it as its caller runs it       *)
(***************************************************************************)
EngineInit ==
    /\ epage \in EnginePages \cup CandidatePages \cup ColumnPages \cup PeriodPages
                \cup IndexBPages \cup HeaderPickPages
    /\ ecall = ""
    /\ eout = <<>>

\* rows = extract_gap_based(page)
ExtractGapBased ==
    /\ epage # NoWords
    /\ ecall' = "extract_gap_based"
    /\ eout' = extract_gap_based(epage)
    /\ UNCHANGED epage

\* hdr_data = extract_header_cols(page)
ExtractHeaderCols ==
    /\ epage # NoWords
    /\ ecall' = "extract_header_cols"
    /\ eout' = extract_header_cols(epage)
    /\ UNCHANGED epage

\* idx_data = extract_index_page(page), after detect_index_page(words)
ExtractIndexPage ==
    /\ epage # NoWords
    /\ detect_index_page(epage.words)
    /\ ecall' = "extract_index_page"
    /\ eout' = extract_index_page(epage)
    /\ UNCHANGED epage

\* process_table: rebuilt = rebuild_table(page, table.bbox)
RebuildTable ==
    /\ epage # NoWords
    /\ \E t \in 1..Len(epage.tables) :
          /\ ~_is_index_table(epage.tables[t].rows)
          /\ should_rebuild(epage.tables[t].rows)
          /\ eout' = rebuild_table(epage, epage.tables[t].bbox)
    /\ ecall' = "rebuild_table"
    /\ UNCHANGED epage

\* process_table: return _expand_index_table(raw)
ExpandIndexTable ==
    /\ epage # NoWords
    /\ \E t \in 1..Len(epage.tables) :
          /\ _is_index_table(epage.tables[t].rows)
          /\ eout' = _expand_index_table(epage.tables[t].rows)
    /\ ecall' = "_expand_index_table"
    /\ UNCHANGED epage

\* extract_gap_based: col_ranges = _detect_data_columns(words, page.width)
DetectDataColumns ==
    /\ epage.words # <<>>
    /\ ecall' = "_detect_data_columns"
    /\ eout' = _detect_data_columns(epage.words, epage.width)
    /\ UNCHANGED epage

\* extract_gap_based: one pass of "for rw in rows_raw", up to the cells
\* the words of the row are written to
GapAssignRowWith(rows_raw, col_ranges) ==
    /\ col_ranges # <<>>
    /\ \E r \in 1..Len(rows_raw) :
          eout' = <<r, GapColumnsOfRow(rows_raw[r], col_ranges)>>

GapAssignRow ==
    /\ epage.words # <<>>
    /\ GapAssignRowWith(_group_rows(epage.words),
                        _detect_data_columns(epage.words, epage.width))
    /\ ecall' = "gap_row"
    /\ UNCHANGED epage

\* extract_header_cols: one pass of "for word_row in rows_raw", the
\* ci = _assign(w) of every word of the row
HdrAssignRowWith(rows_raw, cen) ==
    /\ cen # NoCenters
    /\ \E r \in 1..Len(rows_raw) :
          eout' = <<r, HdrColumnsOfRow(rows_raw[r], cen)>>

HdrAssignRow ==
    /\ epage.words # <<>>
    /\ HdrAssignRowWith(_group_rows(epage.words),
                        detect_col_centers(epage.words, epage.width))
    /\ ecall' = "hdr_row"
    /\ UNCHANGED epage

\* rebuild_table: header = _find_column_header_row(rows)
FindColumnHeaderRow ==
    /\ epage # NoWords
    /\ \E t \in 1..Len(epage.tables) :
          /\ ~_is_index_table(epage.tables[t].rows)
          /\ should_rebuild(epage.tables[t].rows)
          /\ WordsInBox(epage, epage.tables[t].bbox) # <<>>
          /\ eout' = _find_column_header_row(
                         _group_into_rows(WordsInBox(epage, epage.tables[t].bbox)))
    /\ ecall' = "_find_column_header_row"
    /\ UNCHANGED epage

\* process_table: if should_rebuild(raw)
ShouldRebuild ==
    /\ epage # NoWords
    /\ \E t \in 1..Len(epage.tables) :
          eout' = <<should_rebuild(epage.tables[t].rows)>>
    /\ ecall' = "should_rebuild"
    /\ UNCHANGED epage

\* process_table(page, table)
ProcessTable ==
    /\ epage # NoWords
    /\ \E t \in 1..Len(epage.tables) :
          eout' = process_table(epage, epage.tables[t])
    /\ ecall' = "process_table"
    /\ UNCHANGED epage

(***************************************************************************)
(* SpecPage: one page of a topology that reaches a per-page routine        *)
(***************************************************************************)
PageInit ==
    /\ epage \in RoutedPages \cup QueuedPages
    /\ ecall = ""
    /\ eout = <<>>

\* use_hdr, hdr_data = should_use_header_cols(page, pp_data), reached when
\* the index parser has not returned; pp_data is None on an h_only page
ShouldUseHeaderCols ==
    /\ epage # NoWords
    /\ classify_page(epage) \in {"lines", "h_only"}
    /\ IndexData(epage) = <<>>
    /\ ecall' = "should_use_header_cols"
    /\ eout' = should_use_header_cols(epage,
                   IF classify_page(epage) = "lines" THEN pp_data(epage) ELSE <<>>)
    /\ UNCHANGED epage

\* pb["content"] = _extract_page_pdfplumber(page, current_form)
ExtractPagePdfplumber ==
    /\ epage # NoWords
    /\ classify_page(epage) = "lines"
    /\ ecall' = "_extract_page_pdfplumber"
    /\ eout' = _extract_page_pdfplumber(epage)
    /\ UNCHANGED epage

\* pb["content"] = _extract_page_gap(page, current_form)
ExtractPageGap ==
    /\ epage # NoWords
    /\ classify_page(epage) = "h_only"
    /\ ecall' = "_extract_page_gap"
    /\ eout' = _extract_page_gap(epage)
    /\ UNCHANGED epage

\* the else branch of the page loop, 'no_lines' or 'scanned': the page is
\* queued and pb["content"] stays []
QueuePage ==
    /\ epage # NoWords
    /\ classify_page(epage) \notin {"lines", "h_only"}
    /\ ecall' = "queued"
    /\ eout' = RouteContent(epage, classify_page(epage))
    /\ UNCHANGED epage

(***************************************************************************)
(* SpecDoc: extract_document over a short document                         *)
(***************************************************************************)
MaxPages == 3

\* a second title line, with another form identifier
OtherTitleRow == <<Tok(<<"F", "O", "R", "M">>, 20, 50), Tok(<<"L", "-", "1", "4", "-", "A">>, 55, 85)>>

\* a ruled page with a table under the title FORM L-4
TitledGridPage ==
    MkPage(0, Layout(<<TitleRow, YearHeaderRow, DataRow(1), DataRow(2), DataRow(3)>>, 1),
           <<CleanTable>>, LinesRules)

\* a ruled page with a stacked 2-row table and no title
StackedGridPage ==
    MkPage(0, Layout(<<YearHeaderRow, DataRow(1)>>, 1), <<StackedTable>>, LinesRules)

\* a page with horizontal rules only
HOnlyPage ==
    MkPage(0, Layout(<<YearHeaderRow, DataRow(1), DataRow(2), DataRow(3), VersionRow>>, 1),
           <<>>, HOnlyRules)

\* a page without rules, titled FORM L-14-A
TitledPlainPage ==
    MkPage(0, Layout(<<OtherTitleRow, DataRow(1), DataRow(2)>>, 1), <<>>, <<>>)

\* a page without rules that holds a table the gap engine can read
PlainTablePage ==
    MkPage(0, Layout(<<YearHeaderRow, DataRow(1), DataRow(2), DataRow(3)>>, 1), <<>>, <<>>)

\* a page that is one large image
ImagePage ==
    [MkPage(0, <<>>, <<>>, <<>>) EXCEPT
        !.images = <<[width |-> 500, height |-> 700]>>, !.chars = 0]

DocPages ==
    {TitledGridPage, StackedGridPage, HOnlyPage, TitledPlainPage, PlainTablePage,
     ImagePage}

\* the pages of a document are numbered from 1
Pdfs ==
    UNION { { [i \in 1..n |-> [f[i] EXCEPT !.page_number = i]] : f \in [1..n -> DocPages] } :
            n \in 0..MaxPages }

\* what docling may find on a page
DoclingTables == { <<>>, <<TableItem(<< <<<<"d">>>> >>)>> }

DocIdle ==
    /\ pdf = <<>>
    /\ force_docling = FALSE
    /\ pc = "idle"
    /\ document = <<>>
    /\ current_form = <<>>
    /\ docling_pages = <<>>
    /\ docling_blocks = <<>>

DocInit ==
    /\ pdf \in Pdfs
    /\ force_docling \in BOOLEAN
    /\ pc = "pages"
    /\ document = <<>>
    /\ current_form = <<>>
    /\ docling_pages = <<>>
    /\ docling_blocks = <<>>

\* one iteration of "for page in pdf.pages"
ProcessPage ==
    /\ pc = "pages"
    /\ Len(document) < Len(pdf)
    /\ LET page == pdf[Len(document) + 1]
           form == NextForm(current_form, page.text)
       IN  /\ current_form' = form
           /\ document' = Append(document, PageBlock(page, form, force_docling))
           /\ docling_pages' = IF QueuedForDocling(page, force_docling)
                               THEN Append(docling_pages, page.page_number)
                               ELSE docling_pages
    /\ UNCHANGED <<pdf, force_docling, pc, docling_blocks>>

\* a read of the page's primitives raises inside the loop body, in
\* page.extract_text() or later in classify_page or an engine: the loop has
\* no handler, so the exception leaves extract_document
PageReadRaises ==
    /\ pc = "pages"
    /\ Len(document) < Len(pdf)
    /\ current_form' \in {current_form,
                          NextForm(current_form, pdf[Len(document) + 1].text)}
    /\ pc' = "raised_in_page"
    /\ UNCHANGED <<pdf, force_docling, document, docling_pages, docling_blocks>>

\* the loop is over: "if docling_pages:"
EndOfPages ==
    /\ pc = "pages"
    /\ Len(document) = Len(pdf)
    /\ pc' = IF docling_pages # <<>> THEN "docling" ELSE "done"
    /\ UNCHANGED <<pdf, force_docling, document, current_form, docling_pages,
                   docling_blocks>>

\* extract_with_docling returns, some chunk workers having failed, and its
\* blocks are merged into the document
DoclingMerge ==
    /\ pc = "docling"
    /\ \E failed \in SUBSET ChunkStarts(Len(pdf)), tables \in DoclingTables :
          docling_blocks' = extract_with_docling(Len(pdf), docling_pages, failed, tables)
    /\ document' = MergeDocling(document, docling_blocks')
    /\ pc' = "done"
    /\ UNCHANGED <<pdf, force_docling, current_form, docling_pages>>

\* extract_with_docling raises ImportError: the gap-fallback pass
GapFallback ==
    /\ pc = "docling"
    /\ document' = GapFallbackBlocks(document, pdf, docling_pages)
    /\ pc' = "done"
    /\ UNCHANGED <<pdf, force_docling, current_form, docling_pages, docling_blocks>>

\* extract_with_docling raises another exception, which extract_document
\* does not catch
DoclingRaises ==
    /\ pc = "docling"
    /\ pc' = "raised"
    /\ UNCHANGED <<pdf, force_docling, document, current_form, docling_pages,
                   docling_blocks>>

(***************************************************************************)
(* Specifications                                                          *)
(***************************************************************************)
(***************************************************************************)
(* SpecDocling: extract_with_docling of extractor_docling.py, its chunk    *)
(* files and its workers.  A block is known by its page number.            *)
(***************************************************************************)
MaxChunks == 3

\* the page counts tried: a chunk boundary and the page after it
DlTotals == {n \in 1..(MaxChunks * CHUNK_SIZE) : n % CHUNK_SIZE \in {0, 1}}

\* the pages that may be requested: the first and the last page of a chunk
DlSamplePages(total) == {p \in 1..total : p % CHUNK_SIZE \in {0, 1}}

\* page_numbers: None, one page or two pages
DlRequests(total) ==
    {S \in SUBSET DlSamplePages(total) : Cardinality(S) <= 2}

\* the pages of the chunk that starts at s: range(start, min(start + chunk_size, total))
ChunkPages(total, s) == {p \in s..(s + CHUNK_SIZE - 1) : p <= total}

\* the chunks kept by "if page_numbers:" ({} stands for None and for [])
FilteredChunks(total, pages) ==
    IF pages = {} THEN ChunkStarts(total)
    ELSE {s \in ChunkStarts(total) :
             \E pg \in pages : s <= pg /\ pg <= s + CHUNK_SIZE - 1}

\* all_blocks.sort(key=page_number): insertion keeps the order of equal keys
RECURSIVE SortPageNumbers(_)
SortPageNumbers(blocks) ==
    IF blocks = <<>> THEN <<>>
    ELSE LET srt  == SortPageNumbers(SubSeq(blocks, 1, Len(blocks) - 1))
             x    == blocks[Len(blocks)]
             k    == Cardinality({i \in 1..Len(srt) : srt[i] <= x})
         IN  SubSeq(srt, 1, k) \o <<x>> \o SubSeq(srt, k + 1, Len(srt))

\* the list returned without the sort
ReturnedBlocks_unsorted(blocks, pages) ==
    IF pages = {} THEN blocks
    ELSE SelectSeq(blocks, LAMBDA b : b \in pages)

\* the sort, and the filter "if page_numbers:"
ReturnedBlocks(blocks, pages) ==
    IF pages = {} THEN SortPageNumbers(blocks)
    ELSE SelectSeq(SortPageNumbers(blocks), LAMBDA b : b \in pages)

\* the files unlinked by the finally block: those of the list 'chunks'
UnlinkedFiles(chunks) == {chunks[i] : i \in 1..Len(chunks)}

DlIdle ==
    /\ dl_total = 0
    /\ dl_pages = {}
    /\ dl_serial = FALSE
    /\ dl_pc = "idle"
    /\ dl_files = {}
    /\ dl_chunks = <<>>
    /\ dl_pending = {}
    /\ dl_blocks = <<>>
    /\ dl_failed = {}
    /\ dl_result = <<>>

DlInit ==
    /\ dl_total \in DlTotals
    /\ dl_pages \in DlRequests(dl_total)
    /\ dl_serial \in BOOLEAN
    /\ dl_pc = "split"
    /\ dl_files = {}
    /\ dl_chunks = <<>>
    /\ dl_pending = {}
    /\ dl_blocks = <<>>
    /\ dl_failed = {}
    /\ dl_result = <<>>

\* chunks = _split_pdf_to_chunks(pdf_path, CHUNK_SIZE), the filter
\* "if page_numbers:", and the submission of the workers
SplitPdfToChunks ==
    /\ dl_pc = "split"
    /\ dl_files' = ChunkStarts(dl_total)
    /\ dl_chunks' = AscendingSeq(FilteredChunks(dl_total, dl_pages))
    /\ dl_pending' = FilteredChunks(dl_total, dl_pages)
    /\ dl_pc' = "workers"
    /\ UNCHANGED <<dl_total, dl_pages, dl_serial, dl_blocks, dl_failed, dl_result>>

\* all_blocks.extend(fut.result()) for the next future of as_completed, or
\* all_blocks.extend(_extract_chunk_worker(a)) for the next chunk in order;
\* a worker whose conversion raised returns []
ChunkWorkerReturns ==
    /\ dl_pc = "workers"
    /\ \E s \in dl_pending, failed \in BOOLEAN :
          /\ dl_serial => \A t \in dl_pending : s <= t
          /\ dl_blocks' = IF failed THEN dl_blocks
                          ELSE dl_blocks \o AscendingSeq(ChunkPages(dl_total, s))
          /\ dl_failed' = IF failed THEN dl_failed \cup {s} ELSE dl_failed
          /\ dl_pending' = dl_pending \ {s}
    /\ UNCHANGED <<dl_total, dl_pages, dl_serial, dl_pc, dl_files, dl_chunks, dl_result>>

\* fut.result() or the worker call raises: the try block is left
ChunkProcessingRaises ==
    /\ dl_pc = "workers"
    /\ dl_pending # {}
    /\ dl_pc' = "raising"
    /\ UNCHANGED <<dl_total, dl_pages, dl_serial, dl_files, dl_chunks, dl_pending,
                   dl_blocks, dl_failed, dl_result>>

\* finally: for path, _ in chunks: os.unlink(path)
CleanUpTempFiles ==
    /\ \/ dl_pc = "workers" /\ dl_pending = {} /\ dl_pc' = "sort"
       \/ dl_pc = "raising" /\ dl_pc' = "raised"
    /\ dl_files' = dl_files \ UnlinkedFiles(dl_chunks)
    /\ UNCHANGED <<dl_total, dl_pages, dl_serial, dl_chunks, dl_pending, dl_blocks,
                   dl_failed, dl_result>>

\* all_blocks.sort(...), the filter to the requested pages, return
SortAndReturn ==
    /\ dl_pc = "sort"
    /\ dl_result' = ReturnedBlocks(dl_blocks, dl_pages)
    /\ dl_pc' = "returned"
    /\ UNCHANGED <<dl_total, dl_pages, dl_serial, dl_files, dl_chunks, dl_pending,
                   dl_blocks, dl_failed>>

InitNorm == NormInit /\ ClassIdle /\ EngIdle /\ DocIdle /\ DlIdle

NextNorm ==
    \/ FixNumberSplitsGrid /\ UNCHANGED <<classVars, engVars, docVars, dlVars>>
    \/ FixNumberSplitsGap /\ UNCHANGED <<classVars, engVars, docVars, dlVars>>

SpecNorm == InitNorm /\ [][NextNorm]_vars

InitClassify == ClassInit /\ NormIdle /\ EngIdle /\ DocIdle /\ DlIdle

NextClassify == ClassifyPage /\ UNCHANGED <<normVars, engVars, docVars, dlVars>>

SpecClassify == InitClassify /\ [][NextClassify]_vars

InitEngine == EngineInit /\ NormIdle /\ ClassIdle /\ DocIdle /\ DlIdle

NextEngine ==
    \/ ExtractGapBased /\ UNCHANGED <<normVars, classVars, docVars, dlVars>>
    \/ ExtractHeaderCols /\ UNCHANGED <<normVars, classVars, docVars, dlVars>>
    \/ ExtractIndexPage /\ UNCHANGED <<normVars, classVars, docVars, dlVars>>
    \/ RebuildTable /\ UNCHANGED <<normVars, classVars, docVars, dlVars>>
    \/ ExpandIndexTable /\ UNCHANGED <<normVars, classVars, docVars, dlVars>>
    \/ ShouldRebuild /\ UNCHANGED <<normVars, classVars, docVars, dlVars>>
    \/ DetectDataColumns /\ UNCHANGED <<normVars, classVars, docVars, dlVars>>
    \/ GapAssignRow /\ UNCHANGED <<normVars, classVars, docVars, dlVars>>
    \/ HdrAssignRow /\ UNCHANGED <<normVars, classVars, docVars, dlVars>>
    \/ FindColumnHeaderRow /\ UNCHANGED <<normVars, classVars, docVars, dlVars>>
    \/ ProcessTable /\ UNCHANGED <<normVars, classVars, docVars, dlVars>>

SpecEngine == InitEngine /\ [][NextEngine]_vars

InitPage == PageInit /\ NormIdle /\ ClassIdle /\ DocIdle /\ DlIdle

NextPage ==
    \/ ShouldUseHeaderCols /\ UNCHANGED <<normVars, classVars, docVars, dlVars>>
    \/ ExtractPagePdfplumber /\ UNCHANGED <<normVars, classVars, docVars, dlVars>>
    \/ ExtractPageGap /\ UNCHANGED <<normVars, classVars, docVars, dlVars>>
    \/ QueuePage /\ UNCHANGED <<normVars, classVars, docVars, dlVars>>

SpecPage == InitPage /\ [][NextPage]_vars

InitDoc == DocInit /\ NormIdle /\ ClassIdle /\ EngIdle /\ DlIdle

NextDoc ==
    \/ ProcessPage /\ UNCHANGED <<normVars, classVars, engVars, dlVars>>
    \/ PageReadRaises /\ UNCHANGED <<normVars, classVars, engVars, dlVars>>
    \/ EndOfPages /\ UNCHANGED <<normVars, classVars, engVars, dlVars>>
    \/ DoclingMerge /\ UNCHANGED <<normVars, classVars, engVars, dlVars>>
    \/ GapFallback /\ UNCHANGED <<normVars, classVars, engVars, dlVars>>
    \/ DoclingRaises /\ UNCHANGED <<normVars, classVars, engVars, dlVars>>

SpecDoc == InitDoc /\ [][NextDoc]_vars

InitDocling == DlInit /\ NormIdle /\ ClassIdle /\ EngIdle /\ DocIdle

NextDocling ==
    \/ SplitPdfToChunks /\ UNCHANGED <<normVars, classVars, engVars, docVars>>
    \/ ChunkWorkerReturns /\ UNCHANGED <<normVars, classVars, engVars, docVars>>
    \/ ChunkProcessingRaises /\ UNCHANGED <<normVars, classVars, engVars, docVars>>
    \/ CleanUpTempFiles /\ UNCHANGED <<normVars, classVars, engVars, docVars>>
    \/ SortAndReturn /\ UNCHANGED <<normVars, classVars, engVars, docVars>>

SpecDocling == InitDocling /\ [][NextDocling]_vars

(***************************************************************************)
(* Claims                                                                  *)
(***************************************************************************)

\* the engines that build a table, by the name of the call
EngineCalls ==
    {"extract_gap_based", "extract_header_cols", "extract_index_page",
     "rebuild_table", "_expand_index_table"}

\* C1: every table an engine produces (rebuild_table, _expand_index_table,
\* extract_gap_based, extract_header_cols, extract_index_page in both
\* formats) is rectangular: every row is as long as the first row.
C1_Rectangular ==
    ecall \in EngineCalls =>
        \A r \in 1..Len(eout) : Len(eout[r]) = Len(eout[1])

\* a gap table with a text-only row, padded to the width of a data row
C1_WitnessPaddedRow ==
    /\ ecall = "extract_gap_based"
    /\ \E r \in 1..Len(eout) :
          /\ Len(eout[r]) >= 3
          /\ eout[r][1] # <<>>
          /\ \A c \in 2..Len(eout[r]) : eout[r][c] = <<>>
          /\ _row_is_text_only(_group_rows(epage.words)[1],
                 _detect_data_columns(epage.words, epage.width)[1][1] - PARTICULARS_MARGIN)
    /\ \E r \in 1..Len(eout) : \A c \in 1..Len(eout[r]) : eout[r][c] # <<>>

\* the words of a cell: its text split at the spaces
RECURSIVE CellWords(_)
CellWords(cell) ==
    IF cell = <<>> THEN <<>>
    ELSE IF cell[1] = " " THEN CellWords(Tail(cell))
    ELSE LET n == CHOOSE k \in 1..Len(cell) :
                      /\ \A j \in 1..k : cell[j] # " "
                      /\ k = Len(cell) \/ cell[k + 1] = " "
         IN  <<SubSeq(cell, 1, n)>> \o CellWords(SubSeq(cell, n + 1, Len(cell)))

\* the words of all the cells of a row
RECURSIVE RowWords(_)
RowWords(row) ==
    IF row = <<>> THEN <<>> ELSE CellWords(row[1]) \o RowWords(Tail(row))

Count(texts, t) == Cardinality({i \in 1..Len(texts) : texts[i] = t})

\* the same texts, each as many times
SameTexts(a, b) ==
    /\ Len(a) = Len(b)
    /\ \A i \in 1..Len(a) : Count(a, a[i]) = Count(b, a[i])

\* t is part of the text of some cell of the table
InSomeCell(table, t) ==
    \E r \in 1..Len(table) : \E c \in 1..Len(table[r]) : Contains(table[r][c], t)

\* the elements of a sequence
Range(seq) == {seq[i] : i \in 1..Len(seq)}

\* the box of the table the last call of rebuild_table was made for
RebuiltBox ==
    epage.tables[CHOOSE u \in 1..Len(epage.tables) :
                    /\ ~_is_index_table(epage.tables[u].rows)
                    /\ should_rebuild(epage.tables[u].rows)
                    /\ eout = rebuild_table(epage, epage.tables[u].bbox)].bbox

\* the word tokens the engine of the last call was given
PassedWords ==
    IF ecall = "rebuild_table" THEN Range(WordsInBox(epage, RebuiltBox))
    ELSE Range(epage.words)

\* C2 (as stated), its "no token is lost" half: the text of every token
\* passed to an engine is found in a cell of the table the engine returns.
C2_NoTokenLost ==
    (ecall \in EngineCalls \ {"_expand_index_table"} /\ eout # <<>>) =>
        \A w \in PassedWords : InSomeCell(eout, w.text)

\* the rows the engine of the last call keeps, each with the row of cells
\* it builds for it before the number normaliser: <<word row, raw row>>
KeptRows ==
    IF ecall = "extract_gap_based"
    THEN LET cr   == _detect_data_columns(epage.words, epage.width)
             kept == SelectSeq(_group_rows(epage.words), LAMBDA rw : GapKeepsRow(rw, cr))
         IN  [i \in 1..Len(kept) |-> <<kept[i], GapRawRow(kept[i], cr)>>]
    ELSE IF ecall = "extract_header_cols"
    THEN LET cen  == detect_col_centers(epage.words, epage.width)
             kept == SelectSeq(_group_rows(epage.words), LAMBDA rw : HdrKeepsRow(rw, cen))
         IN  [i \in 1..Len(kept) |-> <<kept[i], HdrRawRow(kept[i], cen)>>]
    ELSE IF ecall = "rebuild_table"
    THEN LET rows == _group_into_rows(WordsInBox(epage, RebuiltBox))
             grp  == _merge_header_words(_find_column_header_row(rows))
         IN  [i \in 1..Len(rows) |-> <<rows[i], GridRawRow(rows[i], grp)>>]
    ELSE LET rows == _group_rows(epage.words)
             h    == IndexHeader(rows, 1)[1]
             z    == FormatAZones(rows[h])
             kept == SelectSeq(SubSeq(rows, h, Len(rows)), LAMBDA rw : FormatAKeepsRow(rw, z))
         IN  [i \in 1..Len(kept) |-> <<kept[i], FormatARawRow(kept[i], z)>>]

\* the last call returned a table built row by row from the word rows
\* (Format B of the index parser builds entries instead)
RowByRowTable ==
    /\ ecall \in EngineCalls \ {"_expand_index_table"}
    /\ eout # <<>>
    /\ ecall = "extract_index_page" => ~IndexHeader(_group_rows(epage.words), 1)[2]

\* C2 (amended): the output has one row per word row the engine keeps; the
\* cells of that row, before the number normaliser, hold the texts of the
\* tokens of the word row, each token in exactly one cell; the output row
\* is that row or its normalised form.
C2_KeptRowsHoldTheirTokens ==
    RowByRowTable =>
        /\ Len(eout) = Len(KeptRows)
        /\ \A i \in 1..Len(KeptRows) :
              /\ SameTexts(RowWords(KeptRows[i][2]), Texts(KeptRows[i][1]))
              /\ eout[i] \in { KeptRows[i][2],
                               fix_number_splits_gap(KeptRows[i][2]),
                               fix_number_splits_grid(KeptRows[i][2]),
                               [k \in 1..Len(KeptRows[i][2]) |-> Strip(KeptRows[i][2][k])] }

\* a gap table with two tokens in one cell, from a page with a footer row
C2_WitnessTwoTokensInACell ==
    /\ ecall = "extract_gap_based"
    /\ \E r \in 1..Len(eout) :
          eout[r][1] = <<"P", "r", "e", "m", "i", "u", "m", " ", "p", "a", "i", "d">>
    /\ \E i \in 1..Len(epage.words) :
          epage.words[i].text = <<"V", "e", "r", "s", "i", "o", "n", ":", "1">>

\* C3: ValueNormalizer is idempotent: applying _fix_number_splits to its
\* own output changes nothing, for every cell text.
C3_Idempotent ==
    Len(normHist) >= 3 => normHist[3] = normHist[2]


\* what the claims call the combined image area, the vertical and the
\* horizontal rule primitives of the classified page
CombinedImageArea ==
    SumSeq([i \in 1..Len(cpage.images) |-> cpage.images[i].width * cpage.images[i].height])

VerticalRuleCount ==
    Cardinality({i \in 1..Len(cpage.lines) :
                    /\ cpage.lines[i].x0 = cpage.lines[i].x1
                    /\ cpage.lines[i].y1 - cpage.lines[i].y0 > 20})
    + Cardinality({i \in 1..Len(cpage.rects) :
                    cpage.rects[i].width < 2 /\ cpage.rects[i].height > 20})

HorizontalRuleCount ==
    Cardinality({i \in 1..Len(cpage.lines) :
                    /\ cpage.lines[i].y0 = cpage.lines[i].y1
                    /\ cpage.lines[i].x1 - cpage.lines[i].x0 > 20})
    + Cardinality({i \in 1..Len(cpage.rects) :
                    cpage.rects[i].height < 2 /\ cpage.rects[i].width > 20})

\* C4 (as stated): classify returns 'scanned' exactly when the images cover
\* more than half of the page and the page has fewer than 20 word tokens.
C4_ScannedIffFewWords ==
    ctag # "" =>
        (ctag = "scanned" <=>
            /\ 2 * CombinedImageArea > cpage.width * cpage.height
            /\ cpage.nwords < 20)

\* C4 (amended): classify returns 'scanned' exactly when the images cover
\* more than half of the page and the page has fewer than 20 characters;
\* the test precedes the rule counting.
C4_ScannedIffFewChars ==
    ctag # "" =>
        (ctag = "scanned" <=>
            /\ 2 * CombinedImageArea > cpage.width * cpage.height
            /\ cpage.chars < 20)

\* a scanned page that also has 3 or more vertical rules
C4_WitnessScannedWithRules ==
    /\ ctag = "scanned"
    /\ VerticalRuleCount >= 3
    /\ cpage.chars > 0

\* C5: classify returns one of the four tags, and for a page that is not
\* scanned: 'lines' iff there are at least 3 vertical rules (segments and
\* thin tall rectangles together), 'h_only' iff fewer than 3 vertical and
\* at least 3 horizontal rules, 'no_lines' otherwise.
C5_TagByRuleCounts ==
    ctag # "" =>
        /\ ctag \in {"lines", "h_only", "no_lines", "scanned"}
        /\ ctag # "scanned" =>
            /\ ctag = "lines" <=> VerticalRuleCount >= 3
            /\ ctag = "h_only" <=> (VerticalRuleCount < 3 /\ HorizontalRuleCount >= 3)
            /\ ctag = "no_lines" <=> (VerticalRuleCount < 3 /\ HorizontalRuleCount < 3)

\* a 'lines' page whose 3 vertical rules are segments and rectangles together
C5_WitnessMixedRules ==
    /\ ctag = "lines"
    /\ Len(v_lines(cpage)) < 3
    /\ Len(v_rects(cpage)) < 3

\* the candidates of the page of the last call: the processed first grid
\* table (pp), the header engine's table (hdr), the gap engine's table
PpCandidate ==
    IF epage.tables # <<>> THEN process_table(epage, epage.tables[1]) ELSE <<>>

HdrCandidate == extract_header_cols(epage)

GapCandidate == extract_gap_based(epage)

\* the three override conditions of the arbitrator
HdrHasMoreColumns ==
    /\ HdrCandidate # <<>>
    /\ Len(HdrCandidate[1]) > (IF PpCandidate # <<>> THEN Len(PpCandidate[1]) ELSE 0)

\* rows 5 to 19 counted from 0, as pp_data[5:20] counts them
LabelHoldsNumber ==
    \E r \in 6..Min(Len(PpCandidate), 20) :
        /\ PpCandidate[r] # <<>>
        /\ \E i \in 1..Len(PpCandidate[r][1]) :
              /\ i + 2 <= Len(PpCandidate[r][1])
              /\ \A k \in i..(i + 2) : IsDigit(PpCandidate[r][1][k])

\* rows 3 to 29 counted from 0, as pp_data[3:30] counts them
ReferenceMergedWithDigits ==
    \E r \in 4..Min(Len(PpCandidate), 30) :
        \E c \in 1..Len(PpCandidate[r]) : _MERGED_SCHED_RE(Strip(PpCandidate[r][c]))

AnyOverride == HdrHasMoreColumns \/ LabelHoldsNumber \/ ReferenceMergedWithDigits

\* the arbitrator ran on a ruled page that has both candidates
ArbitratedBoth ==
    /\ ecall = "should_use_header_cols"
    /\ classify_page(epage) = "lines"
    /\ PpCandidate # <<>>
    /\ HdrCandidate # <<>>

\* C6 (as stated): with both candidates, hdr is selected whenever one of
\* the three conditions holds, whatever the number of rows of hdr.
C6_HdrChosenOnAnyCondition ==
    (ArbitratedBoth /\ AnyOverride) => eout = HdrCandidate

\* C6 (amended): with both candidates, hdr is selected exactly when it has
\* at least 5 rows and one of the three conditions holds; otherwise the
\* arbitrator selects nothing and pp stays.
C6_HdrChosenWithFiveRows ==
    ArbitratedBoth =>
        eout = IF Len(HdrCandidate) >= 5 /\ AnyOverride THEN HdrCandidate ELSE <<>>

\* hdr selected for the merged reference alone
C6_WitnessMergedReferenceOnly ==
    /\ ArbitratedBoth
    /\ eout = HdrCandidate
    /\ ReferenceMergedWithDigits
    /\ ~HdrHasMoreColumns
    /\ ~LabelHoldsNumber

\* pp's output: every grid table of the page, processed
GridTables ==
    [i \in 1..Len(epage.tables) |-> TableItem(process_table(epage, epage.tables[i]))]

\* the grid candidate's score: rows of all the grid tables times the widest
\* first row (1 when no table has a row)
GridCols ==
    IF \E i \in 1..Len(epage.tables) : epage.tables[i].rows # <<>>
    THEN CHOOSE n \in 0..100 :
            /\ \E i \in 1..Len(epage.tables) :
                  epage.tables[i].rows # <<>> /\ Len(epage.tables[i].rows[1]) = n
            /\ \A i \in 1..Len(epage.tables) :
                  epage.tables[i].rows # <<>> => Len(epage.tables[i].rows[1]) <= n
    ELSE 1

GridScore ==
    SumSeq([i \in 1..Len(epage.tables) |-> Len(epage.tables[i].rows)]) * GridCols

\* the gap table scores more than 1.5 times the grid, with as many columns
ScoreRule ==
    /\ GapCandidate # <<>>
    /\ 2 * Len(GapCandidate) * Len(GapCandidate[1]) > 3 * GridScore
    /\ Len(GapCandidate[1]) >= GridCols

\* pp has an empty middle column, the gap table has 2 columns or more and
\* the grid is at most 8 columns wide
PhantomRule ==
    /\ PpCandidate # <<>>
    /\ _pp_has_empty_cols(PpCandidate)
    /\ GapCandidate # <<>>
    /\ Len(GapCandidate[1]) >= 2
    /\ GridCols <= 8

\* the index parser's table for the page, <<>> when it is no index page
IndexCandidate ==
    IF detect_index_page(epage.words) THEN extract_index_page(epage) ELSE <<>>

\* the line routine ran on a page with a pp candidate and no override
PpNotOverridden ==
    /\ ecall = "_extract_page_pdfplumber"
    /\ PpCandidate # <<>>
    /\ ~AnyOverride

\* C7 (as stated): on a 'lines' page with a pp candidate and none of the
\* three override conditions, the content is pp's output.
C7_GridTrusted ==
    PpNotOverridden => eout = GridTables

\* C7 (amended): on such a page the content is the index parser's table
\* when the page is an index page, else the gap table when the score rule
\* or the phantom-column rule holds, else pp's output.
C7_GridTrustedUnlessIndexOrGap ==
    PpNotOverridden =>
        eout = IF IndexCandidate # <<>> THEN <<TableItem(IndexCandidate)>>
               ELSE IF ScoreRule \/ PhantomRule THEN <<TableItem(GapCandidate)>>
               ELSE GridTables

\* pp kept although the gap engine had a table to offer
C7_WitnessGridKept ==
    /\ PpNotOverridden
    /\ IndexCandidate = <<>>
    /\ GapCandidate # <<>>
    /\ eout = GridTables
    /\ eout # <<TableItem(GapCandidate)>>

\* the line routine got past the index parser and the header arbitration
GapOrGridDecided ==
    /\ ecall = "_extract_page_pdfplumber"
    /\ IndexCandidate = <<>>
    /\ ~(Len(HdrCandidate) >= 5 /\ AnyOverride)

\* the grid tables, or the text lines of the page when there is none
GridOrText == IF epage.tables # <<>> THEN GridTables ELSE TextContent(epage)

\* C8 (as stated): the gap table is returned only under the score rule;
\* in every other case the grid tables or the text lines are.
C8_GapOnlyOnScore ==
    GapOrGridDecided =>
        eout = IF ScoreRule THEN <<TableItem(GapCandidate)>> ELSE GridOrText

\* C8 (amended): the gap table is returned under the score rule and also
\* under the phantom-column rule; in every other case the grid tables or
\* the text lines are.
C8_GapOnScoreOrPhantom ==
    GapOrGridDecided =>
        eout = IF ScoreRule \/ PhantomRule THEN <<TableItem(GapCandidate)>>
               ELSE GridOrText

\* the gap table returned for the phantom column alone
C8_WitnessPhantomOnly ==
    /\ GapOrGridDecided
    /\ PhantomRule
    /\ ~ScoreRule
    /\ eout = <<TableItem(GapCandidate)>>
    /\ eout # GridOrText

\* C9: extract_document returns one PageBlock per input page, in page
\* order, also after the docling merge and after the gap-fallback pass.
C9_OneBlockPerPage ==
    /\ Len(document) <= Len(pdf)
    /\ \A k \in 1..Len(document) : document[k].page_number = k
    /\ pc \in {"docling", "done"} => Len(document) = Len(pdf)

\* a returned document with a block docling filled and one it did not touch
C9_WitnessAfterMerge ==
    /\ pc = "done"
    /\ \E k \in 1..Len(document) :
          document[k].engine = "docling" /\ document[k].content # <<>>
    /\ \E k \in 1..Len(document) : document[k].engine = "lines"

\* the identifier of the latest of the pages 1..k that has one, <<>> (null)
\* when none has
RECURSIVE LatestForm(_)
LatestForm(k) ==
    IF k = 0 THEN <<>>
    ELSE IF FormSearch(pdf[k].text) # <<>> THEN FormSearch(pdf[k].text)
    ELSE LatestForm(k - 1)

\* C10: each block's form_name is the identifier of the latest page at or
\* before it that has one, null only when none has; after a non-null
\* form_name no null one follows; the docling merge leaves it as it is.
C10_FormNamePropagates ==
    /\ \A k \in 1..Len(document) : document[k].form_name = LatestForm(k)
    /\ \A j, k \in 1..Len(document) :
          (j < k /\ document[j].form_name # <<>>) => document[k].form_name # <<>>

\* a block docling filled that keeps the identifier of an earlier page
C10_WitnessInheritedAfterMerge ==
    /\ pc = "done"
    /\ \E k \in 1..Len(document) :
          /\ document[k].engine = "docling"
          /\ document[k].content # <<>>
          /\ FormSearch(pdf[k].text) = <<>>
          /\ document[k].form_name # <<>>

\* the step in which the blocks docling returned are merged: the docling
\* pass ends and no block carries the tag of the fallback pass
MergeStep ==
    /\ pc = "docling"
    /\ pc' = "done"
    /\ \A k \in 1..Len(document') : document'[k].engine # "gap-fallback"

\* the block docling returned for page number n, if any
ReturnedFor(blocks, n) == {b \in 1..Len(blocks) : blocks[b].page_number = n}

\* block k after the merge: overwritten from the returned block of its page
\* number, or left as it was
MergedOrKept(k) ==
    IF ReturnedFor(docling_blocks', document[k].page_number) # {}
    THEN \E b \in ReturnedFor(docling_blocks', document[k].page_number) :
            /\ document'[k].content = docling_blocks'[b].content
            /\ document'[k].engine = "docling"
            /\ document'[k].page_number = document[k].page_number
            /\ document'[k].form_name = document[k].form_name
            /\ document'[k].is_index = document[k].is_index
    ELSE document'[k] = document[k]

\* C11: the merge overwrites content and engine of exactly the blocks whose
\* page number is in what docling returned and leaves every other block
\* unchanged; a block the core built as 'lines' or 'h_only' is never
\* modified once it is in the document.
C11_MergeTouchesOnlyReturnedPages ==
    [][ /\ MergeStep => \A k \in 1..Len(document) : MergedOrKept(k)
        /\ \A k \in 1..Len(document) :
              document[k].engine \in {"lines", "h_only"} => document'[k] = document[k]
      ]_vars

\* a merged document: docling returned blocks for some pages only, and the
\* document holds a block it filled next to a 'lines' block with a table
C11_WitnessMergedBesideLines ==
    /\ pc = "done"
    /\ docling_blocks # <<>>
    /\ Len(docling_blocks) < Len(document)
    /\ \E k \in 1..Len(document) :
          /\ document[k].engine = "docling"
          /\ ReturnedFor(docling_blocks, k) # {}
    /\ \E k \in 1..Len(document) :
          /\ document[k].engine = "lines"
          /\ document[k].content # <<>>
          /\ ReturnedFor(docling_blocks, k) = {}

\* whether page number n is in docling_pages
Delegated(n) == \E q \in 1..Len(docling_pages) : docling_pages[q] = n

\* the page is classified 'scanned' or 'no_lines'
Unruled(page) == classify_page(page) \in {"scanned", "no_lines"}

\* neither the gap engine nor the header engine yields a table for the page
Unresolved(page) ==
    /\ extract_gap_based(page) = <<>>
    /\ extract_header_cols(page) = <<>>

\* C12 (as stated): without force_docling, a page number is delegated only
\* if the page is 'scanned' or 'no_lines' and both the gap engine and the
\* header engine returned empty for it.
C12_DelegatedOnlyIfUnresolved ==
    ~force_docling =>
        \A k \in 1..Len(document) : Delegated(k) => Unruled(pdf[k]) /\ Unresolved(pdf[k])

\* C12 (amended): a page number is delegated exactly when force_docling is
\* set or the page is 'scanned' or 'no_lines'; no engine is tried on such a
\* page before the docling pass, its block holds an empty content until then.
C12_DelegatedIffForcedOrUnruled ==
    /\ \A k \in 1..Len(document) :
          Delegated(k) <=> (force_docling \/ Unruled(pdf[k]))
    /\ pc \in {"pages", "docling"} =>
          \A k \in 1..Len(document) : Delegated(k) => document[k].content = <<>>

\* a 'no_lines' page that the gap engine reads as a table, delegated with
\* an empty content
C12_WitnessResolvablePageDelegated ==
    /\ ~force_docling
    /\ pc = "docling"
    /\ \E k \in 1..Len(document) :
          /\ Delegated(k)
          /\ classify_page(pdf[k]) = "no_lines"
          /\ extract_gap_based(pdf[k]) # <<>>
          /\ document[k].content = <<>>

\* C13: when the read of a page's primitives raises, extract_document
\* still processes the remaining pages: the call is not left by that
\* exception, and the document holds a block for each later page.
C13_PageFailureKeepsLaterPages ==
    pc = "raised_in_page" => Len(document) = Len(pdf)

HasText(content) == \E i \in 1..Len(content) : content[i].type = "text"

HasTable(content) == \E i \in 1..Len(content) : content[i].type = "table"

\* the raw text lines as a content, empty when the page has no text line
TextOrNothing(page) ==
    IF TextLines(page.text) # <<>> THEN <<TextItem(TextLines(page.text))>> ELSE <<>>

\* the chain of an 'h_only' page: index table, else the table the
\* arbitrator selects, else the gap table, else the text lines
HOnlyChain(page) ==
    IF IndexData(page) # <<>> THEN <<TableItem(IndexData(page))>>
    ELSE IF should_use_header_cols(page, <<>>) # <<>>
         THEN <<TableItem(should_use_header_cols(page, <<>>))>>
    ELSE IF extract_gap_based(page) # <<>> THEN <<TableItem(extract_gap_based(page))>>
    ELSE TextOrNothing(page)

\* no table reaches the content: the index parser, the arbitrator and the
\* gap engine give nothing, and on a 'lines' page the provider has no table
NoTableForContent(page, pp) ==
    /\ IndexData(page) = <<>>
    /\ should_use_header_cols(page, pp) = <<>>
    /\ extract_gap_based(page) = <<>>

\* no engine made a table: the index parser, the header engine and the gap
\* engine return nothing
NoEngineTable(page) ==
    /\ IndexData(page) = <<>>
    /\ extract_header_cols(page) = <<>>
    /\ extract_gap_based(page) = <<>>

\* a content never holds a table together with a text item
TableOrTextOnly ==
    ecall \in {"_extract_page_gap", "_extract_page_pdfplumber"} =>
        ~(HasText(eout) /\ HasTable(eout))

\* C14 (as stated): on an 'h_only' page the content is the index table,
\* else the header table the arbitrator selects, else the non-empty gap
\* table, else the raw text lines; on both page paths a text item is
\* produced only when no engine produced a table, and a content never holds
\* a table together with a text item.
C14_TextOnlyWhenNoEngineTable ==
    /\ ecall = "_extract_page_gap" => eout = HOnlyChain(epage)
    /\ (ecall = "_extract_page_gap" /\ HasText(eout)) => NoEngineTable(epage)
    /\ (ecall = "_extract_page_pdfplumber" /\ HasText(eout)) =>
          /\ NoEngineTable(epage)
          /\ epage.tables = <<>>
    /\ TableOrTextOnly

\* C14 (amended): the same chain; a text item is produced only when no
\* table was selected for the content: the index parser and the gap engine
\* return nothing, the provider has no table on a 'lines' page, and the
\* arbitrator selects nothing, which includes a header table of fewer than
\* 5 rows that it discards.
C14_OrderedFallback ==
    /\ ecall = "_extract_page_gap" => eout = HOnlyChain(epage)
    /\ (ecall = "_extract_page_gap" /\ HasText(eout)) => NoTableForContent(epage, <<>>)
    /\ (ecall = "_extract_page_pdfplumber" /\ HasText(eout)) =>
          /\ NoTableForContent(epage, pp_data(epage))
          /\ epage.tables = <<>>
    /\ TableOrTextOnly

\* an 'h_only' page whose content is the text lines although the header
\* engine built a table, of fewer than 5 rows
C14_WitnessShortHeaderTableDiscarded ==
    /\ ecall = "_extract_page_gap"
    /\ eout = <<TextItem(TextLines(epage.text))>>
    /\ extract_header_cols(epage) # <<>>
    /\ Len(extract_header_cols(epage)) < MIN_HDR_ROWS

\* a page without tokens: no word, no text, and no text in a table cell
NoTokens(page) ==
    /\ page.words = <<>>
    /\ page.text = <<>>
    /\ \A t \in 1..Len(page.tables) :
          \A r \in 1..Len(page.tables[t].rows) :
              \A c \in 1..Len(page.tables[t].rows[r]) : page.tables[t].rows[r][c] = <<>>

\* index detection, the header engine, the gap engine and the arbitrator
\* return their empty result
EnginesEmpty(page) ==
    /\ ~detect_index_page(page.words)
    /\ extract_header_cols(page) = <<>>
    /\ extract_gap_based(page) = <<>>
    /\ should_use_header_cols(page, pp_data(page)) = <<>>
    /\ should_use_header_cols(page, <<>>) = <<>>

\* one table item per table of the provider, as the provider extracted it
ProviderTables(page) ==
    [i \in 1..Len(page.tables) |-> TableItem(page.tables[i].rows)]

PageRoutineRan == ecall \in {"_extract_page_pdfplumber", "_extract_page_gap", "queued"}

\* C15 (as stated): a page without tokens gets an empty content, whatever
\* its tag, and index detection, the header engine, the gap engine and the
\* arbitrator return their empty result on it.
C15_NoTokensEmptyContent ==
    (PageRoutineRan /\ NoTokens(epage)) => (eout = <<>> /\ EnginesEmpty(epage))

\* C15 (amended): on a page without tokens the four routines return their
\* empty result, and the content is empty unless the page is 'lines' and
\* the provider found tables from the rules alone: the content then holds
\* those tables, of empty cells.
C15_NoTokensEmptyUnlessRuledTables ==
    (PageRoutineRan /\ NoTokens(epage)) =>
        /\ EnginesEmpty(epage)
        /\ eout = IF ecall = "_extract_page_pdfplumber"
                  THEN ProviderTables(epage) ELSE <<>>

\* a 'lines' page without tokens whose content is a table of empty cells
C15_WitnessEmptyRuledGrid ==
    /\ ecall = "_extract_page_pdfplumber"
    /\ NoTokens(epage)
    /\ epage.tables # <<>>
    /\ eout = <<TableItem(Grid(2, 3, <<>>))>>

\* the positions of the numeric-looking tokens right of 40% of the width
Qualifying(page) ==
    {i \in 1..Len(page.words) :
        /\ _NUM_RE(page.words[i].text)
        /\ 10 * page.words[i].x0 > 4 * page.width}

\* at least 3 qualifying tokens between a and b, each one left of b
\* followed by another at most 20 units to its right
ClusterBetween(page, a, b) ==
    LET Q == Qualifying(page)
        inside == {i \in Q : a <= page.words[i].x0 /\ page.words[i].x0 <= b}
    IN  /\ Cardinality(inside) >= 3
        /\ \A i \in inside :
              page.words[i].x0 < b =>
                  \E j \in inside :
                      /\ page.words[j].x0 > page.words[i].x0
                      /\ page.words[j].x0 <= page.words[i].x0 + 20

HasCluster(page) ==
    \E i, j \in Qualifying(page) :
        ClusterBetween(page, page.words[i].x0, page.words[j].x0)

\* C16: extract_gap_based returns its empty result whenever fewer than 6
\* numeric-looking tokens lie right of 40% of the page width and whenever
\* no cluster of at least 3 of them exists; a table it returns was built
\* from at least 6 qualifying tokens holding such a cluster.
C16_GapNeedsSixTokensAndACluster ==
    ecall = "extract_gap_based" =>
        /\ Cardinality(Qualifying(epage)) < 6 => eout = <<>>
        /\ ~HasCluster(epage) => eout = <<>>
        /\ eout # <<>> => (Cardinality(Qualifying(epage)) >= 6 /\ HasCluster(epage))

\* 6 qualifying tokens without a cluster of 3: the engine returns nothing
C16_WitnessSixTokensNoCluster ==
    /\ ecall = "extract_gap_based"
    /\ Cardinality(Qualifying(epage)) >= 6
    /\ ~HasCluster(epage)
    /\ eout = <<>>

\* the highest number of column keywords in one row of the page
BestScore(page) ==
    LET rows   == _group_rows(page.words)
        scores == {HdrScore(rows[i]) : i \in 1..Len(rows)} \cup {0}
    IN  CHOOSE m \in scores : \A n \in scores : n <= m

\* the number of column centres detected around the best header row
DetectedCenters(page) ==
    LET rows == _group_rows(page.words)
        best == BestHdrRow(rows, 1, 0, 0)
    IN  IF best[1] = 0 THEN 0 ELSE Len(AllCenters(rows, best[1]).centers)

\* C17: extract_header_cols returns its empty result whenever the best
\* header row scores below 4 keyword matches or fewer than 6 column centres
\* are detected; a table it returns was built from at least 6 centres and
\* every row of it has one or two columns more than centres, at least 7.
C17_HeaderNeedsSixCenters ==
    ecall = "extract_header_cols" =>
        /\ BestScore(epage) < 4 => eout = <<>>
        /\ DetectedCenters(epage) < 6 => eout = <<>>
        /\ eout # <<>> =>
              /\ BestScore(epage) >= 4
              /\ DetectedCenters(epage) >= 6
              /\ \A r \in 1..Len(eout) :
                    /\ Len(eout[r]) >= 7
                    /\ Len(eout[r]) - DetectedCenters(epage) \in {1, 2}

\* a header row of 5 keywords that gives 4 centres: no table
C17_WitnessFourCentersNoTable ==
    /\ ecall = "extract_header_cols"
    /\ BestScore(epage) >= 4
    /\ DetectedCenters(epage) \in 1..5
    /\ eout = <<>>


(***************************************************************************)
(* The rebuild decision                                                    *)
(***************************************************************************)

\* (a) exactly two rows, and a cell of the second row holds a line break
TwoRowsSecondMultiline(rows) ==
    /\ Len(rows) = 2
    /\ \E c \in 1..Len(rows[2]) : \E i \in 1..Len(rows[2][c]) : rows[2][c][i] = "\n"

\* two different keywords occur in the cell, whatever the case of its letters
TwoKeywordsIn(cell) ==
    \E k1 \in IRDAI_COL_KW : \E k2 \in IRDAI_COL_KW \ {k1} :
        /\ \E i \in 1..Len(cell) : LitAtI(cell, i, k1)
        /\ \E i \in 1..Len(cell) : LitAtI(cell, i, k2)

OneLine(cell) == \A i \in 1..Len(cell) : cell[i] # "\n"

\* (b) as stated: some cell of the first 8 rows holds two keywords
KeywordsInOneCell(rows) ==
    \E r \in 1..Len(rows) : \E c \in 1..Len(rows[r]) :
        r <= 8 /\ TwoKeywordsIn(rows[r][c])

\* (b) for cells of one line only
KeywordsInOneLineCell(rows) ==
    \E r \in 1..Len(rows) : \E c \in 1..Len(rows[r]) :
        r <= 8 /\ OneLine(rows[r][c]) /\ TwoKeywordsIn(rows[r][c])

\* a digit, whitespace, then a digit or a comma
DigitGapDigit(cell) ==
    \E i \in 1..Len(cell) : \E j \in (i + 2)..Len(cell) :
        /\ cell[i] \in Digits
        /\ \A m \in (i + 1)..(j - 1) : cell[m] \in {" ", "\t", "\n"}
        /\ cell[j] \in Digits \cup {","}

\* (c) some cell of the first 5 rows holds a split number
SplitNumberInCell(rows) ==
    \E r \in 1..Len(rows) : \E c \in 1..Len(rows[r]) :
        r <= 5 /\ DigitGapDigit(rows[r][c])

\* C18 as stated: should_rebuild returns true exactly when the candidate is
\* not empty and (a) it has two rows and the second holds a line break, or
\* (b) a cell of the first 8 rows holds two keywords, or (c) a cell of the
\* first 5 rows holds a digit, whitespace, then a digit or comma.
C18_RebuildOnAnyCondition ==
    ecall = "should_rebuild" =>
        \E t \in 1..Len(epage.tables) :
            LET rows == epage.tables[t].rows
            IN  eout = << /\ rows # <<>>
                          /\ \/ TwoRowsSecondMultiline(rows)
                             \/ KeywordsInOneCell(rows)
                             \/ SplitNumberInCell(rows) >>

\* C18 amended: the same, with (b) holding only for a cell without a line
\* break - two keywords on different lines of one cell do not count.
C18_RebuildKeywordsOnOneLine ==
    ecall = "should_rebuild" =>
        \E t \in 1..Len(epage.tables) :
            LET rows == epage.tables[t].rows
            IN  eout = << /\ rows # <<>>
                          /\ \/ TwoRowsSecondMultiline(rows)
                             \/ KeywordsInOneLineCell(rows)
                             \/ SplitNumberInCell(rows) >>

\* a table of three rows or more holds two keywords on two lines of one
\* cell, and should_rebuild returned False
C18_WitnessKeywordsAcrossLines ==
    /\ ecall = "should_rebuild"
    /\ eout = <<FALSE>>
    /\ \E t \in 1..Len(epage.tables) :
          /\ Len(epage.tables[t].rows) >= 3
          /\ KeywordsInOneCell(epage.tables[t].rows)

(***************************************************************************)
(* The table kept when the rebuild fails                                   *)
(***************************************************************************)

\* the words of the page whose left top corner lies in the box
InBox(page, bbox) ==
    SelectSeq(page.words, LAMBDA w :
        w.x0 >= bbox[1] /\ w.x0 <= bbox[3] /\ w.top >= bbox[2] /\ w.top <= bbox[4])

\* no row among the first 12 has three words whose left edges are 2 apart
NoUsableHeader(rows) ==
    \A r \in 1..Len(rows) :
        r <= 12 =>
            \/ Len(rows[r]) < 3
            \/ \E i \in 1..(Len(rows[r]) - 1) : rows[r][i + 1].x0 - rows[r][i].x0 < 2

\* rebuild_table is called for the table and fails for one of the two reasons
RebuildFails(page, table) ==
    /\ ~TwoRowsSecondMultiline(table.rows)
    /\ should_rebuild(table.rows)
    /\ \/ InBox(page, table.bbox) = <<>>
       \/ NoUsableHeader(_group_into_rows(InBox(page, table.bbox)))

\* C19: when should_rebuild asks for a rebuild and rebuild_table finds no
\* words in the box or no usable header row among the first 12 rows,
\* process_table returns the rows of the provider's table unchanged.
C19_FailedRebuildKeepsCandidate ==
    ecall = "process_table" =>
        \A t \in 1..Len(epage.tables) :
            RebuildFails(epage, epage.tables[t]) => eout = epage.tables[t].rows

\* process_table returned the candidate although it asked for a rebuild and
\* the box held words, none of them in a usable header row
C19_WitnessNoHeaderKeepsCandidate ==
    /\ ecall = "process_table"
    /\ \E t \in 1..Len(epage.tables) :
          /\ RebuildFails(epage, epage.tables[t])
          /\ InBox(epage, epage.tables[t].bbox) # <<>>
          /\ eout = epage.tables[t].rows

(***************************************************************************)
(* Index expansion                                                         *)
(***************************************************************************)

\* the number of lines of a cell: none for the empty cell
LineCount(cell) ==
    IF cell = <<>> THEN 0
    ELSE 1 + Cardinality({p \in 1..Len(cell) : cell[p] = "\n"})

\* the positions of the i-th line of the cell
LinePositions(cell, i) ==
    {p \in 1..Len(cell) :
        /\ cell[p] # "\n"
        /\ Cardinality({q \in 1..(p - 1) : cell[q] = "\n"}) = i - 1}

\* the i-th line of the cell
Line(cell, i) ==
    LET ps == LinePositions(cell, i)
    IN  IF ps = {} THEN <<>>
        ELSE SubSeq(cell, CHOOSE p \in ps : \A q \in ps : p <= q,
                          CHOOSE p \in ps : \A q \in ps : p >= q)

\* the most lines of a cell of the row
MostLines(row) ==
    IF row = <<>> THEN 0
    ELSE CHOOSE n \in {LineCount(row[c]) : c \in 1..Len(row)} :
            \A c \in 1..Len(row) : LineCount(row[c]) <= n

\* out is the header of raw, then one row for each line number
ExpandedFrom(raw, out) ==
    LET N == MostLines(raw[2])
    IN  /\ Len(out) = 1 + N
        /\ out[1] = raw[1]
        /\ \A i \in 1..N :
              /\ Len(out[i + 1]) = Len(raw[2])
              /\ \A c \in 1..Len(raw[2]) :
                    out[i + 1][c] = IF i <= LineCount(raw[2][c])
                                    THEN Line(raw[2][c], i)
                                    ELSE <<>>

\* C20: the expansion of a two-row table with a multi-line second row keeps
\* the header and has 1 + N rows, N the most lines of a cell of the second
\* row; data row i holds each column's i-th line, or the empty string.
C20_ExpansionTransposesLines ==
    ecall \in {"_expand_index_table", "process_table"} =>
        \A t \in 1..Len(epage.tables) :
            TwoRowsSecondMultiline(epage.tables[t].rows) =>
                ExpandedFrom(epage.tables[t].rows, eout)

\* a second row of three lines beside a shorter cell became three data rows
C20_WitnessThreeLinesPadded ==
    /\ ecall = "_expand_index_table"
    /\ Len(eout) = 4
    /\ \E t \in 1..Len(epage.tables) :
          /\ TwoRowsSecondMultiline(epage.tables[t].rows)
          /\ \E c \in 1..Len(epage.tables[t].rows[2]) :
                /\ LineCount(epage.tables[t].rows[2][c]) = 2
                /\ eout[4][c] = <<>>


(***************************************************************************)
(* What one application of the normaliser leaves                           *)
(***************************************************************************)

\* C21: the output of _fix_number_splits holds no digit followed by
\* whitespace followed by a digit or a comma, for every cell text and for
\* both normalisers.
C21_OutputHasNoSplitNumber ==
    Len(normHist) >= 2 =>
        \A c \in 1..Len(normHist[2]) : ~DigitGapDigit(normHist[2][c])


\* an ordinal day or a month name: 30th, 31st, or a capital and small letters
DayOrMonth(t) ==
    \/ t = <<"3", "0", "t", "h">>
    \/ t = <<"3", "1", "s", "t">>
    \/ /\ Len(t) >= 2
       /\ IsUpper(t[1])
       /\ \A i \in 2..Len(t) : IsLower(t[i])

\* a cell that is a 4-digit year, at most one space, a day or a month
YearThenDayOrMonth(cell) ==
    /\ Len(cell) >= 6
    /\ \A i \in 1..4 : cell[i] \in Digits
    /\ \/ DayOrMonth(SubSeq(cell, 5, Len(cell)))
       \/ cell[5] = " " /\ DayOrMonth(SubSeq(cell, 6, Len(cell)))

\* C22: whichever normaliser is applied, the grid rebuild's or the gap and
\* header engines', the result is the one the other gives on the same row,
\* and a cell holding a year followed by a day or a month becomes the year.
C22_NormalisersAgree ==
    Len(normHist) >= 2 =>
        /\ normHist[2] = fix_number_splits_grid(normRow)
        /\ normHist[2] = fix_number_splits_gap(normRow)
        /\ \A c \in 1..Len(normRow) :
              YearThenDayOrMonth(normRow[c]) =>
                  normHist[2][c] = SubSeq(normRow[c], 1, 4)


(***************************************************************************)
(* The column bands of the gap engine                                      *)
(***************************************************************************)

\* the x-positions of the qualifying numeric tokens of the page
QualifyingXs(page) == {page.words[i].x0 : i \in Qualifying(page)}

\* a and b lie in one run: no two neighbouring positions from the smaller
\* to the larger are more than 20 apart
SameRun(page, a, b) ==
    LET lo == IF a < b THEN a ELSE b
        hi == IF a < b THEN b ELSE a
        X  == QualifyingXs(page)
    IN  \A u \in X :
            (lo <= u /\ u < hi) =>
                \E v \in X : u < v /\ v - u <= 20

\* the maximal run that holds position a, and its number of tokens
RunOf(page, a) == {b \in QualifyingXs(page) : SameRun(page, a, b)}

RunSize(page, a) ==
    Cardinality({i \in Qualifying(page) : page.words[i].x0 \in RunOf(page, a)})

LeastOf(S) == CHOOSE x \in S : \A y \in S : x <= y

MostOf(S) == CHOOSE x \in S : \A y \in S : x >= y

\* the envelopes of the maximal runs of at least 3 tokens
RunEnvelopes(page) ==
    { <<LeastOf(RunOf(page, a)), MostOf(RunOf(page, a))>> :
        a \in {x \in QualifyingXs(page) : RunSize(page, x) >= 3} }

\* C23: the bands _detect_data_columns returns are exactly the (min, max)
\* envelopes of the maximal runs of sorted qualifying x-positions with
\* consecutive differences of at most 20 and at least 3 members, in strict
\* order from the left and more than 20 units apart; it returns none only
\* with fewer than 6 qualifying tokens or without such a run.
C23_BandsAreRunEnvelopes ==
    ecall = "_detect_data_columns" =>
        /\ eout # <<>> =>
              /\ {eout[i] : i \in 1..Len(eout)} = RunEnvelopes(epage)
              /\ Len(eout) = Cardinality(RunEnvelopes(epage))
              /\ \A i \in 1..Len(eout) : eout[i][1] <= eout[i][2]
              /\ \A i \in 1..(Len(eout) - 1) : eout[i + 1][1] - eout[i][2] > 20
        /\ eout = <<>> =>
              \/ Cardinality(Qualifying(epage)) < 6
              \/ RunEnvelopes(epage) = {}

\* tokens at 300, 305, 307, 400, 405, 407, out of order on the page, gave
\* the bands 300-307 and 400-407
C23_WitnessTwoBands ==
    /\ ecall = "_detect_data_columns"
    /\ QualifyingXs(epage) = {300, 305, 307, 400, 405, 407}
    /\ Cardinality(Qualifying(epage)) = 6
    /\ eout = << <<300, 307>>, <<400, 407>> >>


(***************************************************************************)
(* The columns the gap engine gives the tokens of a row                    *)
(***************************************************************************)

\* the bands of the page, and the label boundary: first band min - 15
BandsOf(page) == _detect_data_columns(page.words, page.width)

LabelBoundary(page) == BandsOf(page)[1][1] - 15

\* the row of the page the recorded pass of the loop worked on
PassRow == _group_rows(epage.words)[eout[1]]

\* a date-like token: a bare year, an ordinal day, a month name in front
DateLike(text) ==
    \/ Len(text) = 4 /\ \A i \in 1..4 : text[i] \in Digits
    \/ text \in { <<"3", "0", "t", "h">>, <<"3", "1", "s", "t">> }
    \/ \E m \in { <<"S", "e", "p", "t", "e", "m", "b", "e", "r">>,
                  <<"M", "a", "r", "c", "h">>,
                  <<"D", "e", "c", "e", "m", "b", "e", "r">>,
                  <<"J", "u", "n", "e">> } :
          Len(text) >= Len(m) /\ SubSeq(text, 1, Len(m)) = m

\* digits, commas, parentheses, hyphens and periods only
NumericText(text) ==
    text # <<>> /\ \A i \in 1..Len(text) : text[i] \in Digits \cup {",", "(", ")", "-", "."}

\* a header/period row: a date-like token, no numeric token right of the
\* label boundary
PeriodRow(page, rw) ==
    /\ \E i \in 1..Len(rw) : DateLike(rw[i].text)
    /\ ~\E i \in 1..Len(rw) : NumericText(rw[i].text) /\ rw[i].x0 > LabelBoundary(page)

\* the data column (from 1) whose interval between the midpoints of
\* neighbouring bands holds the centre of w
MidpointColumn(page, w) ==
    LET bands == BandsOf(page)
    IN  CHOOSE k \in 1..Len(bands) :
            /\ k = 1 \/ w.x0 + w.x1 > bands[k - 1][2] + bands[k][1]
            /\ k = Len(bands) \/ w.x0 + w.x1 <= bands[k][2] + bands[k + 1][1]

\* the column the stated rule gives token i of the row
StatedColumn(page, rw, i) ==
    IF PeriodRow(page, rw)
    THEN IF rw[i].text = W_Particulars THEN 0 ELSE MidpointColumn(page, rw[i])
    ELSE IF rw[i].x0 < LabelBoundary(page) THEN 0 ELSE MidpointColumn(page, rw[i])

\* all tokens of the row lie left of the label boundary
LeftOfBoundary(page, rw) == \A i \in 1..Len(rw) : rw[i].x0 < LabelBoundary(page)

\* C24 as stated: a row is a header/period row iff it has a date-like token
\* and no numeric token right of the label boundary; in a data row a token
\* goes to column 0 iff its x0 is left of the boundary and else to the
\* column of its centre; in a header row 'Particulars' goes to column 0 and
\* every other token to a data column; every index lies in 0..num_cols-1.
C24_ColumnsByRowKind ==
    ecall = "gap_row" =>
        \A i \in 1..Len(PassRow) :
            /\ eout[2][i] = StatedColumn(epage, PassRow, i)
            /\ eout[2][i] \in 0..Len(BandsOf(epage))

\* C24 amended: the rule holds for the rows with a token at or right of the
\* label boundary; the tokens of a row that lies left of the boundary all
\* go to column 0, date-like or not.
C24_ColumnsByRowKindRightOfBoundary ==
    ecall = "gap_row" =>
        \A i \in 1..Len(PassRow) :
            /\ eout[2][i] = IF LeftOfBoundary(epage, PassRow) THEN 0
                            ELSE StatedColumn(epage, PassRow, i)
            /\ eout[2][i] \in 0..Len(BandsOf(epage))

\* a row with a date-like token whose tokens all lie left of the label
\* boundary went to column 0
C24_WitnessPeriodLineInLabelColumn ==
    /\ ecall = "gap_row"
    /\ LeftOfBoundary(epage, PassRow)
    /\ PeriodRow(epage, PassRow)
    /\ \A i \in 1..Len(PassRow) : eout[2][i] = 0


(***************************************************************************)
(* Serial numbers on a line of their own in a Format B index               *)
(***************************************************************************)

\* the rows of the page, each from left to right
IndexRows == _group_rows(epage.words)

\* the row that holds 'Sr.' and 'Form' (0 when the page is no Format B index)
FormatBHeaderAt ==
    IF IndexHeader(IndexRows, 1)[2] THEN IndexHeader(IndexRows, 1)[1] ELSE 0

\* the texts of row i left of and from x = 135
SerialOf(i) == SrText(IndexRows[i])

EntryOf(i) == RestText(IndexRows[i])

\* a row that holds a number left of x = 135 and nothing else
OrphanSerial(i) ==
    /\ i \in 1..Len(IndexRows)
    /\ EntryOf(i) = <<>>
    /\ SerialOf(i) # <<>>
    /\ \A k \in 1..Len(SerialOf(i)) : SerialOf(i)[k] \in Digits

\* a row after the header that holds a form entry and is no footer line
EntryRow(i) ==
    /\ i \in (FormatBHeaderAt + 1)..Len(IndexRows)
    /\ EntryOf(i) # <<>>
    /\ ~_FOOTER_HDR_RE(Strip(SerialOf(i) \o <<" ">> \o EntryOf(i)))

\* the entry rows in page order
EntryRowSeq == SelectSeq([i \in 1..Len(IndexRows) |-> i], EntryRow)

\* the orphan serials met on their own after entry i, before the next entry
OrphansBehind(i) ==
    {j \in (i + 2)..Len(IndexRows) :
        /\ OrphanSerial(j)
        /\ \A m \in (i + 1)..j : ~EntryRow(m)}

\* the serial of the entry of row i: its own, else the orphan right below
\* it, else the first orphan met on its own before the next entry
StatedSerial(i) ==
    IF SerialOf(i) # <<>> THEN SerialOf(i)
    ELSE IF OrphanSerial(i + 1) THEN SerialOf(i + 1)
    ELSE IF OrphansBehind(i) # {} THEN SerialOf(LeastOf(OrphansBehind(i)))
    ELSE <<>>

\* C25: in a Format B index every output row after the header has 3 cells
\* and stands for one entry row, in order; an orphan serial row gives no
\* row of its own; it becomes the serial of an entry without serial right
\* above it, and met on its own it is attached to the preceding output
\* entry when that entry's serial is empty.
C25_OrphanSerialNeverLost ==
    (ecall = "extract_index_page" /\ FormatBHeaderAt > 0) =>
        /\ Len(eout) = 1 + Len(EntryRowSeq)
        /\ \A k \in 1..Len(EntryRowSeq) :
              /\ Len(eout[k + 1]) = 3
              /\ eout[k + 1][1] = StatedSerial(EntryRowSeq[k])
              /\ eout[k + 1][2] = FormatBEntry(<<>>, EntryOf(EntryRowSeq[k]))[2]
              /\ eout[k + 1][3] = FormatBEntry(<<>>, EntryOf(EntryRowSeq[k]))[3]


(***************************************************************************)
(* The columns the header engine gives the tokens of a row                 *)
(***************************************************************************)

\* the centres of the page (doubled) and its reference column
CentersOf(page) == detect_col_centers(page.words, page.width)

HasReferenceColumn(page) == CentersOf(page).sched_x # <<>>

\* the x-position of the reference column: the leftmost token L-<digits>
\* below the title lines
ReferenceX(page) ==
    LeastOf({page.words[i].x0 : i \in {k \in 1..Len(page.words) :
                /\ _SCHED_COL_RE(page.words[k].text)
                /\ page.words[k].top > 60}})

\* the centre of w is within 20 units of the reference column
NearReference(page, w) ==
    /\ w.x0 + w.x1 - 2 * ReferenceX(page) < 40
    /\ 2 * ReferenceX(page) - (w.x0 + w.x1) < 40

\* the centre of w is left of the first centre minus half the first gap
LeftOfLabelThreshold(page, w) ==
    LET cc == CentersOf(page).col_centers
    IN  2 * (w.x0 + w.x1) < 2 * cc[1] - (cc[2] - cc[1])

\* the data zone (from 1) whose interval between the midpoints of
\* neighbouring centres holds the centre of w
CentreZone(page, w) ==
    LET cc == CentersOf(page).col_centers
    IN  CHOOSE k \in 1..Len(cc) :
            /\ k = 1 \/ 2 * (w.x0 + w.x1) > cc[k - 1] + cc[k]
            /\ k = Len(cc) \/ 2 * (w.x0 + w.x1) <= cc[k] + cc[k + 1]

\* the number of columns of the table of the page
TotalCols(page) ==
    Len(CentersOf(page).col_centers) + (IF HasReferenceColumn(page) THEN 2 ELSE 1)

\* the row of the page the recorded pass of the header engine worked on
HdrPassRow == _group_rows(epage.words)[eout[1]]

\* C26: extract_header_cols puts a token in column 1 when a reference
\* column exists and the token's centre is within 20 units of it, even left
\* of the label threshold; else in column 0 when its centre is left of the
\* label threshold; else in the data column of the zone that holds its
\* centre. The index always lies in 0..total_cols-1.
C26_ReferenceThenLabelThenZone ==
    ecall = "hdr_row" =>
        \A i \in 1..Len(HdrPassRow) :
            /\ eout[2][i] =
                  IF HasReferenceColumn(epage) /\ NearReference(epage, HdrPassRow[i]) THEN 1
                  ELSE IF LeftOfLabelThreshold(epage, HdrPassRow[i]) THEN 0
                  ELSE CentreZone(epage, HdrPassRow[i]) - 1
                           + (IF HasReferenceColumn(epage) THEN 2 ELSE 1)
            /\ eout[2][i] \in 0..(TotalCols(epage) - 1)

\* a token near the reference column and left of the label threshold went
\* to column 1, and a token of the same row went to a later data column
C26_WitnessReferenceLeftOfThreshold ==
    /\ ecall = "hdr_row"
    /\ HasReferenceColumn(epage)
    /\ \E i \in 1..Len(HdrPassRow) :
          /\ NearReference(epage, HdrPassRow[i])
          /\ LeftOfLabelThreshold(epage, HdrPassRow[i])
          /\ eout[2][i] = 1
    /\ \E i \in 1..Len(HdrPassRow) : eout[2][i] > 2


(***************************************************************************)
(* The header row of the grid rebuild                                      *)
(***************************************************************************)

\* the rows of the words in the box of the table of the page
BoxRows == _group_into_rows(InBox(epage, epage.tables[1].bbox))

\* every token of the row starts 2 units or more right of the right edge of
\* the token before it
EdgesApart(row) == \A i \in 1..(Len(row) - 1) : row[i + 1].x0 - row[i].x1 >= 2

\* the rows among the first 12 that can be the header: three tokens or
\* more, every pair of adjacent tokens apart
HeaderCandidates ==
    {r \in 1..Len(BoxRows) : r <= 12 /\ Len(BoxRows[r]) >= 3 /\ EdgesApart(BoxRows[r])}

\* C27: _find_column_header_row picks, among the first 12 rows, the row of
\* the most tokens among the rows whose adjacent tokens are all separated by
\* a gap, right edge to left edge, of at least 2 units; the earliest of such
\* rows on a tie; a row with touching tokens is never picked.
C27_HeaderIsWidestRowWithGaps ==
    ecall = "_find_column_header_row" =>
        IF HeaderCandidates = {} THEN eout = <<>>
        ELSE eout = BoxRows[LeastOf({r \in HeaderCandidates :
                        \A q \in HeaderCandidates : Len(BoxRows[q]) <= Len(BoxRows[r])})]


(***************************************************************************)
(* C28: for every completion order of the chunk workers,                   *)
(* extract_with_docling returns a list sorted ascending by page number     *)
(* with at most one block per page number and only requested page numbers; *)
(* a chunk whose worker failed contributes no block, and the blocks of     *)
(* every other chunk are returned.                                         *)
(***************************************************************************)
Requested(p) == dl_pages = {} \/ p \in dl_pages

StrictlyAscending(blocks) ==
    \A i \in 1..(Len(blocks) - 1) : blocks[i] < blocks[i + 1]

PagesOfWorkingChunks ==
    UNION {ChunkPages(dl_total, dl_chunks[i]) :
              i \in {j \in 1..Len(dl_chunks) : dl_chunks[j] \notin dl_failed}}

C28_MergedByPageNumber ==
    dl_pc = "returned" =>
        /\ StrictlyAscending(dl_result)
        /\ {dl_result[i] : i \in 1..Len(dl_result)}
               = {p \in PagesOfWorkingChunks : Requested(p)}

\* three workers, the last chunk first, one of them failed
C28_WitnessOutOfOrderWithFailure ==
    /\ dl_pc = "returned"
    /\ ~dl_serial
    /\ dl_failed # {}
    /\ ~StrictlyAscending(dl_blocks)
    /\ Len(dl_result) > CHUNK_SIZE


(***************************************************************************)
(* C30: when extract_with_docling has finished, by returning or by an      *)
(* exception raised while the chunks were processed, no chunk file written *)
(* by _split_pdf_to_chunks is left on disk, the files of the chunks that   *)
(* hold no requested page included.                                        *)
(***************************************************************************)
Finished == dl_pc \in {"returned", "raised"}

C30_NoChunkFileLeft == Finished => dl_files = {}

\* what the code does: the files left are those of the chunks filtered out
LeftFilesAreFilteredChunks ==
    Finished => dl_files = ChunkStarts(dl_total) \ FilteredChunks(dl_total, dl_pages)


(***************************************************************************)
(* C29: in the document of extract_document, a page block whose table came *)
(* from a degenerate index table (a grid table of 2 rows whose second row  *)
(* has a cell with a line break), recognised and expanded by               *)
(* process_table, has is_index = TRUE.                                     *)
(***************************************************************************)
\* the block of page i holds the expansion of one of the page's grid tables
HoldsExpandedIndexTable(i) ==
    \E t \in 1..Len(pdf[i].tables), k \in 1..Len(document[i].content) :
        /\ _is_index_table(pdf[i].tables[t].rows)
        /\ document[i].content[k] = TableItem(process_table(pdf[i], pdf[i].tables[t]))
        /\ document[i].content[k].data = _expand_index_table(pdf[i].tables[t].rows)

C29_ExpandedIndexTableIsFlagged ==
    \A i \in 1..Len(document) :
        HoldsExpandedIndexTable(i) => document[i].is_index

\* what the code does: the test of the page loop never succeeds on a table
\* that process_table expanded
ExpandedIndexTableNeverFlagged ==
    \A i \in 1..Len(document) :
        HoldsExpandedIndexTable(i) => ~document[i].is_index

====
